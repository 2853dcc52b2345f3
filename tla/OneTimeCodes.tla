--------------------------- MODULE OneTimeCodes ---------------------------
(***************************************************************************)
(* What pairing promises about its secrets: a code is on record before it   *)
(* is released, it opens one session at most and only while it is open, and *)
(* what is over - a code that was exchanged or has ended, a session that    *)
(* has - never comes back, whatever crashes, fails or is committed unseen.  *)
(***************************************************************************)
VARIABLES
    open,       \* the codes that can be exchanged
    live,       \* the sessions that can be authorised
    past,       \* the codes and sessions that are over
    released    \* what somebody was told the secret of

codeVars == <<open, live, past, released>>

Known == open \union live \union past

Init == open = {} /\ live = {} /\ past = {} /\ released = {}

\* Any of what can be used may end, also while a code is issued or exchanged. A
\* secret is released with the step that puts it on record, or not at all.
End(E) ==
    /\ open' = open \ E /\ live' = live \ E /\ past' = past \union E
    /\ UNCHANGED released

Issue(code, E) ==
    /\ code \notin Known
    /\ open' = (open \ E) \union {code}
    /\ live' = live \ E /\ past' = past \union E
    /\ released' \in {released, released \union {code}}

Exchange(code, session, E) ==
    /\ code \in open \intersect released /\ session \notin Known
    /\ open' = open \ (E \union {code})
    /\ live' = (live \ E) \union {session}
    /\ past' = past \union E \union {code}
    /\ released' \in {released, released \union {session}}

Next ==
    \E E \in SUBSET (open \union live) :
        \/ End(E)
        \/ \E code \in open' : Issue(code, E)
        \/ \E code \in open, session \in live' : Exchange(code, session, E)

Spec == Init /\ [][Next]_codeVars
============================================================================
