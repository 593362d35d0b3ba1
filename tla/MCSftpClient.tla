---------------------------- MODULE MCSftpClient ----------------------------
(* Instances of SftpClient for TLC.                                        *)
EXTENDS SftpClient, TLC
=============================================================================
