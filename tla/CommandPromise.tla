--------------------------- MODULE CommandPromise ---------------------------
(***************************************************************************)
(* What the command API promises its clients, with no table, event loop,   *)
(* cleanup, crash or clock in it: whether the command of a request is      *)
(* published is decided once, and whoever hears of it, the client itself   *)
(* or one that sent the same Idempotency-Key, hears of it after it is      *)
(* decided, what was decided, and once. A client may be told nothing of    *)
(* the command, or may never be answered.                                  *)
(***************************************************************************)
CONSTANTS
    Requests,
    Headers,    \* values of the Idempotency-Key header, NoKey among them
    NoKey,      \* the header is missing
    NoRequest   \* names no request

VARIABLES
    asked,  \* the requests that came in
    key,    \* [Requests -> Headers]
    fate,   \* [Requests -> Fates]
    told    \* [Requests -> [verdict, of]] what each client heard, and of which
            \* request

promiseVars == <<asked, key, fate, told>>

Fates == {"open", "published", "withheld"}

Nothing == [verdict |-> "none", of |-> NoRequest]
Excuse  == [verdict |-> "unknown", of |-> NoRequest]

Init ==
    /\ asked = {} /\ key = [r \in Requests |-> NoKey]
    /\ fate = [r \in Requests |-> "open"]
    /\ told = [r \in Requests |-> Nothing]

Ask(r, k) ==
    /\ r \notin asked
    /\ asked' = asked \cup {r} /\ key' = [key EXCEPT ![r] = k]
    /\ UNCHANGED <<fate, told>>

Decide(r, f) ==
    /\ r \in asked /\ fate[r] = "open" /\ told[r] = Nothing
    /\ fate' = [fate EXCEPT ![r] = f]
    /\ UNCHANGED <<asked, key, told>>

Tell(r, q) ==
    /\ r \in asked /\ told[r] = Nothing
    /\ q = r \/ (key[q] = key[r] /\ key[r] # NoKey /\ q \in asked)
    /\ fate[q] # "open"
    /\ told' = [told EXCEPT ![r] = [verdict |-> fate[q], of |-> q]]
    /\ UNCHANGED <<asked, key, fate>>

TellNothing(r) ==
    /\ r \in asked /\ told[r] = Nothing
    /\ told' = [told EXCEPT ![r] = Excuse]
    /\ UNCHANGED <<asked, key, fate>>

\* Each step changes one of the three; a key comes with its request.
Next ==
    \/ asked' # asked /\ \E r \in Requests, k \in Headers : Ask(r, k)
    \/ fate' # fate /\ \E r \in Requests, f \in {"published", "withheld"} : Decide(r, f)
    \/ told' # told /\ \E r \in Requests : TellNothing(r) \/ \E q \in Requests : Tell(r, q)

Spec == Init /\ [][Next]_promiseVars
=============================================================================
