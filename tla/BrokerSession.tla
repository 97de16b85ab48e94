---------------------------- MODULE BrokerSession ----------------------------
(***************************************************************************)
(* What the broker client promises to the connection manager, without      *)
(* requests or retries: calls of initialize(), login() and shutdown(), by  *)
(* any threads at once, act on one session, in turn, and nothing but these *)
(* calls changes it.  initialize() answers whether the session is open;    *)
(* login() may open it on the way, answers true only of an open one, and   *)
(* closes none when it fails; after shutdown() it is closed.  These are    *)
(* the effects ConnectionManager gives the calls.                          *)
(***************************************************************************)
CONSTANTS Callers, Nobody

VARIABLES
    session,    \* whether the broker session is open
    said,       \* the latest call of each caller, and what it was answered
    turn        \* the caller whose call is being carried out

Nothing == [call |-> "none", answer |-> "none"]

Asked(c) == [call |-> c, answer |-> "none"]

Answered(c, ok) == [call |-> c, answer |-> IF ok THEN "true" ELSE "false"]

Operations == {"initialize", "login", "shutdown"}

Waits(p) == \E c \in Operations : said[p] = Asked(c)

Init ==
    /\ session = FALSE
    /\ said = [p \in Callers |-> Nothing]
    /\ turn = Nobody

Ask(p) ==
    /\ ~Waits(p)
    /\ \E c \in Operations : said' = [said EXCEPT ![p] = Asked(c)]
    /\ UNCHANGED <<session, turn>>

\* The caller does something else with the client.
Leave(p) ==
    /\ ~Waits(p)
    /\ said' = [said EXCEPT ![p] = Nothing]
    /\ UNCHANGED <<session, turn>>

Begin(p) ==
    /\ Waits(p) /\ turn = Nobody
    /\ turn' = p
    /\ UNCHANGED <<session, said>>

Answer(p, c, ok) ==
    /\ turn = p /\ said[p] = Asked(c)
    /\ said' = [said EXCEPT ![p] = Answered(c, ok)]
    /\ turn' = Nobody

Initialize(p) ==
    \E ok \in BOOLEAN : Answer(p, "initialize", ok) /\ session' = ok

Login(p) ==
    /\ \E ok \in BOOLEAN : Answer(p, "login", ok) /\ (ok => session)
    /\ UNCHANGED session

Shutdown(p) ==
    /\ Answer(p, "shutdown", TRUE) /\ ~session
    /\ UNCHANGED session

\* The session opens in the middle of a login, and closes in that of a shutdown.
Opens(p) ==
    /\ turn = p /\ said[p] = Asked("login")
    /\ session' = TRUE
    /\ UNCHANGED <<said, turn>>

Closes(p) ==
    /\ turn = p /\ said[p] = Asked("shutdown")
    /\ session' = FALSE
    /\ UNCHANGED <<said, turn>>

Next ==
    \E p \in Callers :
        \/ Ask(p) \/ Leave(p) \/ Begin(p)
        \/ Opens(p) \/ Closes(p) \/ Initialize(p) \/ Login(p) \/ Shutdown(p)

Spec == Init /\ [][Next]_<<session, said, turn>>
=============================================================================
