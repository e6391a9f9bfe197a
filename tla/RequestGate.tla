---------------------------- MODULE RequestGate ----------------------------
(***************************************************************************)
(* What a request passes before its handler runs: request-ID, audit and    *)
(* timing middleware only annotate it; the rate limiter counts per client  *)
(* identity in fixed windows; then the route asks for a user, for an       *)
(* administrator, or takes a user if there is one.                         *)
(***************************************************************************)
EXTENDS Integers, Sequences, FiniteSets

CONSTANTS
    Callers,       \* identities: a token's digest or an address
    PerWindow,     \* requests_per_window
    WindowLength,  \* window_seconds
    LastSecond     \* bound on the clock

ASSUME GateAssumption ==
    PerWindow \in Nat \ {0} /\ WindowLength \in Nat \ {0} /\ LastSecond \in Nat

VARIABLES
    second,     \* the clock
    window,     \* caller -> count and start of its window, start -1 when unknown
    admitted    \* caller -> times at which the limiter let it pass

gateVars == <<second, window, admitted>>

Routes == {"health", "optional", "user", "admin"}
\* What decode_token and the user's row make of the Authorization header.
Credentials == {"none", "malformed", "expired", "no_user", "user", "admin"}

GateTypeOK ==
    /\ second \in 0 .. LastSecond
    /\ \A c \in Callers :
        /\ window[c].count \in Nat /\ window[c].start \in -1 .. second
        /\ \A i \in DOMAIN admitted[c] : admitted[c][i] \in 0 .. second

GateInit ==
    /\ second = 0 /\ window = [c \in Callers |-> [count |-> 0, start |-> -1]]
    /\ admitted = [c \in Callers |-> <<>>]

\* Mutant: a window that is over resets the count and keeps its start.
CountedFromOldStart(c) ==
    LET w == IF window[c].start = -1 THEN [count |-> 0, start |-> second] ELSE window[c] IN
    [w EXCEPT !.count = IF second - w.start > WindowLength THEN 1 ELSE @ + 1]
\* The counters after this request; an unknown caller opens a window.
Counted(c) ==
    LET w == IF window[c].start = -1 THEN [count |-> 0, start |-> second] ELSE window[c] IN
    IF second - w.start > WindowLength THEN [count |-> 1, start |-> second]
    ELSE [w EXCEPT !.count = @ + 1]

\* get_optional_user, get_current_user, require_admin_user: a header that is
\* there must be good, even where none is needed.
Status(route, cred) ==
    CASE route = "health" \/ (route = "optional" /\ cred = "none") -> 200
      [] cred \notin {"user", "admin"} -> 401
      [] route = "admin" /\ cred # "admin" -> 403
      [] OTHER -> 200

\* With RATE_LIMIT_ENABLED, the default; switched off nobody is counted.
\* RateLimitMiddleware.dispatch has no await between reading and writing the
\* counters.  Health probes are not counted; refused requests are.
Limited(c, route) ==
    /\ route # "health"
    /\ window' = [window EXCEPT ![c] = Counted(c)]
    /\ window'[c].count > PerWindow
    /\ UNCHANGED <<second, admitted>>
Passed(c, route, cred) ==
    /\ IF route = "health" THEN UNCHANGED <<window, admitted>>
       ELSE /\ window' = [window EXCEPT ![c] = Counted(c)]
            /\ window'[c].count <= PerWindow
            /\ admitted' = [admitted EXCEPT ![c] =
                  IF Status(route, cred) = 200 THEN Append(@, second) ELSE @]
    /\ UNCHANGED second
Second ==
    /\ second < LastSecond /\ second' = second + 1 /\ UNCHANGED <<window, admitted>>

\* Refused requests beyond the first add nothing but to the count.
GateNext ==
    \/ \E c \in Callers, route \in Routes, cred \in Credentials :
        \/ window[c].count <= PerWindow /\ Limited(c, route)
        \/ Passed(c, route, cred)
    \/ Second

GateSpec == GateInit /\ [][GateNext]_gateVars

\* A caller's handlers run at most twice PerWindow times in any stretch of a
\* window's length, also where two windows meet.
BoundedBurst ==
    \A c \in Callers : \A i, j \in DOMAIN admitted[c] :
        admitted[c][j] - admitted[c][i] <= WindowLength => j - i < 2 * PerWindow
============================================================================
