---------------------------- MODULE MCFtpControl ----------------------------
(* Instances of FtpControl for TLC.                                        *)
EXTENDS FtpControl, TLC
=============================================================================
