---------------------------- MODULE AirflowClient ----------------------------
(***************************************************************************)
(* A call through an Airflow client: the request loop of                   *)
(* streamlit_app/pipeline.py and, line for line, of agent/orchestrator.py. *)
(* The token is an attribute of the client.  The console has one client    *)
(* for all its sessions (st.cache_resource) and every session runs in a    *)
(* thread of its own, so the token is checked, fetched, read for the       *)
(* request and dropped with other threads in between.                      *)
(*                                                                         *)
(* Airflow is external: it answers a fresh token, rejects an expired one   *)
(* and rejects the text "None", and it may not answer at all.              *)
(***************************************************************************)
EXTENDS Naturals, SqlNull

CONSTANTS
    Callers,      \* threads that share the client
    MaxExpiries,  \* bound on tokens that expire
    MaxOutages    \* bound on requests that get no answer, or an error

ASSUME ClientAssumption == MaxExpiries \in Nat /\ MaxOutages \in Nat

VARIABLES
    token,     \* _token: NULL, "fresh" or "expired"
    calls,     \* what each thread is doing in its call
    expiries,  \* tokens expired so far
    outages    \* requests that got no answer so far

clientVars == <<token, calls, expiries, outages>>

\* History of a call: a token expired while it was on, and another thread had a
\* call on at the same time.
Idle == [at |-> "idle", attempt |-> 1, expired |-> FALSE, overlapped |-> FALSE]

Calling == {c \in Callers : calls[c].at # "idle"}

ClientInit ==
    /\ token = NULL
    /\ calls = [c \in Callers |-> Idle]
    /\ expiries = 0 /\ outages = 0

GoTo(c, place) == calls' = [calls EXCEPT ![c].at = place]

Call(c) ==
    /\ c \notin Calling
    /\ calls' = [d \in Callers |->
                   IF d = c
                     THEN [Idle EXCEPT !.at = "check", !.overlapped = Calling # {}]
                     ELSE [calls[d] EXCEPT !.overlapped = @ \/ d \in Calling]]
    /\ UNCHANGED <<token, expiries, outages>>

CheckToken(c) ==
    /\ calls[c].at = "check"
    /\ GoTo(c, IF token = NULL THEN "fetch" ELSE "ask")
    /\ UNCHANGED <<token, expiries, outages>>

FetchToken(c) ==
    /\ calls[c].at = "fetch"
    /\ token' = "fresh"
    /\ GoTo(c, "ask")
    /\ UNCHANGED <<expiries, outages>>

\* Mutated: rejected for ever, asks for ever.
MayRetry_Always(call) == TRUE

\* Mutated: a rejected token is final.
MayRetry_Never(call) == FALSE

MayRetry(call) == call.attempt = 1

\* The header is made of what the attribute holds now.
Rejected(c) ==
    /\ calls[c].at = "ask"
    /\ token # "fresh"
    /\ MayRetry(calls[c])
    /\ GoTo(c, "rejected")
    /\ UNCHANGED <<token, expiries, outages>>

\* Whatever the attribute holds by now is dropped, another thread's new token
\* included.
DropToken(c) ==
    /\ calls[c].at = "rejected"
    /\ token' = NULL
    /\ calls' = [calls EXCEPT ![c].at = "check", ![c].attempt = 2]
    /\ UNCHANGED <<expiries, outages>>

\* The call returns what Airflow answered at this moment.
Answered(c) ==
    /\ calls[c].at = "ask"
    /\ token = "fresh"
    /\ calls' = [calls EXCEPT ![c] = Idle]
    /\ UNCHANGED <<token, expiries, outages>>

NoAnswer(c) ==
    /\ calls[c].at \in {"fetch", "ask"}
    /\ outages < MaxOutages
    /\ outages' = outages + 1
    /\ calls' = [calls EXCEPT ![c] = Idle]
    /\ UNCHANGED <<token, expiries>>

RejectedAgain(c) ==
    /\ calls[c].at = "ask"
    /\ token # "fresh"
    /\ ~MayRetry(calls[c])
    /\ calls' = [calls EXCEPT ![c] = Idle]
    /\ UNCHANGED <<token, expiries, outages>>

RequestStep(c) ==
    Call(c) \/ CheckToken(c) \/ FetchToken(c) \/ Rejected(c) \/ DropToken(c)

\* A request under way carries the token it was sent with; one that Airflow
\* takes before the expiry is the same as one taken after it, earlier.
Expire ==
    /\ token = "fresh" /\ expiries < MaxExpiries
    /\ token' = "expired"
    /\ expiries' = expiries + 1
    /\ calls' = [c \in Callers |->
                   [calls[c] EXCEPT !.expired = @ \/ c \in Calling]]
    /\ UNCHANGED outages
=============================================================================
