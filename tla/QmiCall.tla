------------------------------ MODULE QmiCall ------------------------------
(***************************************************************************)
(* What QmiThreadSendQMITimeout (QMIThread.c) promises its callers: calls  *)
(* are made one at a time, and a call ends with the modem's answer to that *)
(* very call or with no answer, never with the answer to another call.     *)
(***************************************************************************)
EXTENDS Naturals

VARIABLES
    busy,    \* a caller is inside the call
    call,    \* number of the current (or last) call; 0 before the first
    ans,     \* the answer to that call is in the program's hands
    got      \* 0, or the call whose answer the last caller was handed

vars == <<busy, call, ans, got>>

Init == busy = FALSE /\ call = 0 /\ ans = FALSE /\ got = 0

Begin ==
    /\ ~busy
    /\ busy' = TRUE /\ call' = call + 1 /\ ans' = FALSE
    /\ UNCHANGED got

\* It may come late, after the call has given up.
Answer ==
    /\ call > 0 /\ ~ans
    /\ ans' = TRUE
    /\ UNCHANGED <<busy, call, got>>

Return ==
    /\ busy
    /\ busy' = FALSE
    /\ got' \in IF ans THEN {0, call} ELSE {0}
    /\ (ans' = ans \/ ans' = FALSE)
    /\ UNCHANGED call

Next == Begin \/ Answer \/ Return

Spec == Init /\ [][Next]_vars
=============================================================================
