------------------------------ MODULE BrowserTabs ------------------------------
(***************************************************************************)
(* The tabs of the window and the remote pane of each (state/actions.ts).  *)
(* Every call of the program is awaited: the user goes on meanwhile, so an *)
(* answer may come to a tab that is closed, or has another session.        *)
(***************************************************************************)
EXTENDS Integers, Sequences

CONSTANTS TabIds,
          Dirs,
          MaxBack,      \* the directories a pane goes back to (100 in the code)
          Slots,        \* the calls under way at a time (bound)
          LastSession   \* the sessions made in all (bound)

ASSUME TabAssumption ==
  /\ LastSession \in Nat /\ MaxBack \in Nat \ {0}
  /\ Slots \subseteq Nat \ {0}

VARIABLES
  view,       \* of each: [shown, connecting, session, path, from, loading, back, index],
              \* where `from` is the session whose listing the pane shows
  call,       \* of each slot: [kind, tab, session, dir, push, stage]
  open,       \* the sessions of the program
  made,       \* how many there were
  orphans,    \* history: sessions no tab ever got or the one that had it lost
  crossed     \* history: tabs whose pane was last filled for another session

tabVars == <<view, call, open, made, orphans, crossed>>

Nowhere == ""
NoCall == [kind |-> "free", tab |-> "", session |-> 0, dir |-> Nowhere, push |-> FALSE,
           stage |-> "none"]
Blank(p) == [p EXCEPT !.path = Nowhere, !.from = 0]

TabInit ==
  /\ view = [t \in TabIds |-> [shown |-> TRUE, connecting |-> FALSE, session |-> 0,
                               path |-> Nowhere, from |-> 0, loading |-> FALSE,
                               back |-> << >>, index |-> 0]]
  /\ call = [n \in Slots |-> NoCall]
  /\ open = {} /\ made = 0 /\ orphans = {} /\ crossed = {}

Sent(kind, t, s, dir, push) ==
  [kind |-> kind, tab |-> t, session |-> s, dir |-> dir, push |-> push, stage |-> "sent"]
Ask(calls, c) ==
  \E n \in Slots : /\ calls[n] = NoCall /\ \A k \in 1..(n - 1) : calls[k] # NoCall
                   /\ call' = [calls EXCEPT ![n] = c]
Answered(n, kind) == call[n].kind = kind /\ call[n].stage \in {"done", "refused"}
Without(n) == [call EXCEPT ![n] = NoCall]
Present(n) == view[call[n].tab].shown

-----------------------------------------------------------------------------
(* What the user does                                                      *)

\* navigate, up to its await; `calls` are those under way.
Go(t, p, dir, push, calls) ==
  IF p.session = 0
  THEN view' = [view EXCEPT ![t] = [p EXCEPT !.loading = FALSE]] /\ call' = calls
  ELSE /\ view' = [view EXCEPT ![t] = [p EXCEPT !.loading = TRUE]]
       /\ Ask(calls, Sent("list", t, p.session, dir, push))

\* openEntry, goUp, the path bar; refresh.
Navigate(t, dir, push) ==
  /\ view[t].shown /\ view[t].session # 0 /\ (push \/ view[t].path \in {dir, Nowhere})
  /\ Go(t, view[t], dir, push, call)
  /\ UNCHANGED <<open, made, orphans, crossed>>

\* The index moves at once, the listing is asked for as without history.
GoHistory(t, delta) ==
  LET i == view[t].index + delta IN
  /\ view[t].shown /\ i \in 1..Len(view[t].back)
  /\ Go(t, [view[t] EXCEPT !.index = i], view[t].back[i], FALSE, call)
  /\ UNCHANGED <<open, made, orphans, crossed>>

ConnectSite(t) ==
  /\ view[t].shown /\ view[t].session = 0 /\ ~view[t].connecting
  /\ view' = [view EXCEPT ![t] = Blank([@ EXCEPT !.connecting = TRUE])]
  /\ Ask(call, Sent("connect", t, 0, Nowhere, FALSE))
  /\ UNCHANGED <<open, made, orphans, crossed>>

DisconnectTab(t) ==
  /\ view[t].shown /\ view[t].session # 0
  /\ Ask(call, Sent("disconnect", t, view[t].session, Nowhere, FALSE))
  /\ UNCHANGED <<view, open, made, orphans, crossed>>

\* Slip: the session is left to itself.
CloseTabOnly(t) ==
  /\ view[t].shown /\ view' = [view EXCEPT ![t].shown = FALSE]
  /\ UNCHANGED <<call, open, made, orphans, crossed>>

CloseTab(t) ==
  /\ view[t].shown
  /\ IF view[t].session # 0
     THEN Ask(call, Sent("close", t, view[t].session, Nowhere, FALSE)) /\ UNCHANGED view
     ELSE view' = [view EXCEPT ![t].shown = FALSE] /\ UNCHANGED call
  /\ UNCHANGED <<open, made, orphans, crossed>>

-----------------------------------------------------------------------------
(* The program                                                             *)

Reply(n, stage, s) == call' = [call EXCEPT ![n].stage = stage, ![n].session = s]

ServeConnect(n) ==
  /\ call[n].kind = "connect" /\ call[n].stage = "sent"
  /\ \/ /\ made < LastSession /\ made' = made + 1
        /\ open' = open \cup {made + 1} /\ Reply(n, "done", made + 1)
     \/ Reply(n, "refused", 0) /\ UNCHANGED <<open, made>>
  /\ UNCHANGED <<view, orphans, crossed>>

\* An unknown session is refused; what had been listed before is still answered.
ServeList(n) ==
  /\ call[n].kind = "list" /\ call[n].stage = "sent"
  /\ \/ call[n].session \in open /\ Reply(n, "done", call[n].session)
     \/ Reply(n, "refused", call[n].session)
  /\ UNCHANGED <<view, open, made, orphans, crossed>>

ServeDisconnect(n) ==
  /\ call[n].kind \in {"disconnect", "close"} /\ call[n].stage = "sent"
  /\ open' = open \ {call[n].session} /\ Reply(n, "done", call[n].session)
  /\ UNCHANGED <<view, made, orphans, crossed>>

-----------------------------------------------------------------------------
(* The answers, in any order                                               *)

\* The directory of the site on this computer is shown before the remote one.
ConnectAnswered(n) ==
  LET t == call[n].tab
      p == [view[t] EXCEPT !.connecting = FALSE, !.session = call[n].session,
                          !.back = << >>, !.index = 0]
  IN  /\ Answered(n, "connect")
      /\ \/ /\ ~Present(n) /\ call' = Without(n) /\ UNCHANGED view
            /\ orphans' = orphans \cup ({call[n].session} \ {0})
         \/ /\ Present(n) /\ call[n].stage = "refused" /\ call' = Without(n)
            /\ view' = [view EXCEPT ![t].connecting = FALSE, ![t].session = 0]
            /\ UNCHANGED orphans
         \/ /\ Present(n) /\ call[n].stage = "done" /\ UNCHANGED orphans
            /\ \/ \E d \in Dirs : Go(t, p, d, TRUE, Without(n))
               \/ /\ view' = [view EXCEPT ![t] = p]
                  /\ call' = [call EXCEPT ![n].kind = "local"]
      /\ UNCHANGED <<open, made, crossed>>

LocalAnswered(n) ==
  /\ Answered(n, "local")
  /\ IF Present(n) THEN \E d \in Dirs : Go(call[n].tab, view[call[n].tab], d, TRUE, Without(n))
     ELSE call' = Without(n) /\ UNCHANGED view
  /\ UNCHANGED <<open, made, orphans, crossed>>

\* navigate, after its await: what the pane has meanwhile become is not looked
\* at, but for its history.
Visited(p, dir, push) ==
  IF push /\ p.path # dir
  THEN LET longer == SubSeq(p.back, 1, p.index) \o <<dir>>
           kept == IF Len(longer) > MaxBack THEN Tail(longer) ELSE longer
       IN  [p EXCEPT !.back = kept, !.index = Len(kept)]
  ELSE IF ~push /\ p.back = << >> THEN [p EXCEPT !.back = <<dir>>, !.index = 1]
  ELSE p

Shown(n) ==
  [view EXCEPT ![call[n].tab] =
     [Visited(@, call[n].dir, call[n].push) EXCEPT
        !.path = call[n].dir, !.from = call[n].session, !.loading = FALSE]]
Crossed(n) == IF call[n].session = view[call[n].tab].session
              THEN crossed \ {call[n].tab} ELSE crossed \cup {call[n].tab}

\* Slip: a refused listing leaves the pane as it is.
ListAnsweredLoading(n) ==
  /\ Answered(n, "list") /\ call' = Without(n)
  /\ IF Present(n) /\ call[n].stage = "done" THEN view' = Shown(n) /\ crossed' = Crossed(n)
     ELSE UNCHANGED <<view, crossed>>
  /\ UNCHANGED <<open, made, orphans>>

ListAnswered(n) ==
  /\ Answered(n, "list") /\ call' = Without(n)
  /\ \/ ~Present(n) /\ UNCHANGED <<view, crossed>>
     \/ /\ Present(n) /\ call[n].stage = "refused" /\ UNCHANGED crossed
        /\ view' = [view EXCEPT ![call[n].tab].loading = FALSE]
     \/ Present(n) /\ call[n].stage = "done" /\ view' = Shown(n) /\ crossed' = Crossed(n)
  /\ UNCHANGED <<open, made, orphans>>

\* What the tab has had since it asked to disconnect, or to be closed.
Newer(n) == {view[call[n].tab].session} \ {0, call[n].session}

\* Slip: the session goes, its pane stays.
DisconnectAnsweredBare(n) ==
  /\ Answered(n, "disconnect") /\ call' = Without(n)
  /\ view' = [view EXCEPT ![call[n].tab] = [@ EXCEPT !.session = 0, !.back = << >>]]
  /\ crossed' = crossed \ {call[n].tab} /\ orphans' = orphans \cup Newer(n)
  /\ UNCHANGED <<open, made>>

\* Whichever session the tab has by now.
DisconnectAnswered(n) ==
  /\ Answered(n, "disconnect") /\ call' = Without(n)
  /\ IF Present(n)
     THEN /\ view' = [view EXCEPT ![call[n].tab] =
                       Blank([@ EXCEPT !.session = 0, !.back = << >>, !.index = 0])]
          /\ crossed' = crossed \ {call[n].tab} /\ orphans' = orphans \cup Newer(n)
     ELSE UNCHANGED <<view, crossed, orphans>>
  /\ UNCHANGED <<open, made>>

CloseAnswered(n) ==
  /\ Answered(n, "close") /\ call' = Without(n)
  /\ view' = [view EXCEPT ![call[n].tab].shown = FALSE]
  /\ orphans' = IF Present(n) THEN orphans \cup Newer(n) ELSE orphans
  /\ UNCHANGED <<open, made, crossed>>

TabNext ==
  \/ \E t \in TabIds :
       \/ ConnectSite(t) \/ DisconnectTab(t) \/ CloseTab(t)
       \/ \E d \in Dirs, push \in BOOLEAN : Navigate(t, d, push)
       \/ GoHistory(t, -1) \/ GoHistory(t, 1)
  \/ \E n \in Slots :
       \/ ServeConnect(n) \/ ServeList(n) \/ ServeDisconnect(n)
       \/ ConnectAnswered(n) \/ LocalAnswered(n) \/ ListAnswered(n)
       \/ DisconnectAnswered(n) \/ CloseAnswered(n)

TabSpec == TabInit /\ [][TabNext]_tabVars
-----------------------------------------------------------------------------
\* Types; the place in the history is one of its places, though it is moved
\* before an await and the history after it (actions.ts:362-371, 500-506).
TabTypeOK ==
  /\ view \in [TabIds -> [shown : BOOLEAN, connecting : BOOLEAN, session : 0..LastSession,
                        path : Dirs \cup {Nowhere}, from : 0..LastSession,
                        loading : BOOLEAN, back : Seq(Dirs), index : 0..MaxBack]]
  /\ \A t \in TabIds : /\ view[t].index \in 0..Len(view[t].back)
                       /\ (view[t].index = 0) = (view[t].back = << >>)
  /\ open \subseteq 1..made /\ made \in 0..LastSession

\* Every open session has a tab that shows it, or an answer that brings it to
\* one, so that somebody can close it (closeTab, actions.ts:130-146).  It is
\* lost in two ways only: its tab was closed before the answer to connectSite,
\* or an earlier disconnect or close of that tab was answered after it.
SessionsAreHeld ==
  \A s \in open \ orphans :
    \/ \E t \in TabIds : view[t].shown /\ view[t].session = s
    \/ \E n \in Slots : call[n].kind = "connect" /\ call[n].session = s

\* A pane shows what its tab's session has listed, and nothing without one
\* (disconnectTab, actions.ts:148-170), unless a listing asked for in an earlier
\* session was answered last: navigate does not compare (actions.ts:356).
PaneIsOfSession ==
  \A t \in TabIds \ crossed :
    view[t].shown /\ view[t].path # Nowhere => view[t].from = view[t].session

\* A pane that says it is loading has a listing under way, however many
\* navigations, disconnects and answers have crossed (actions.ts:342-401).
LoadingIsAwaited ==
  \A t \in TabIds : view[t].shown /\ view[t].loading =>
    \E n \in Slots : call[n].kind = "list" /\ call[n].tab = t
=============================================================================
