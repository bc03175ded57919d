---------------------------- MODULE ProxyService ----------------------------
(***************************************************************************)
(* The HTTP front of the proxy. HTTPServer serves one request at a time,   *)
(* so a request may spend any time in the handler while the others wait;   *)
(* the rate limiter keeps, for each client, the times of the requests it   *)
(* let through, in memory, and forgets those that left the window.         *)
(***************************************************************************)
EXTENDS Absence, Integers, Sequences, FiniteSetsExt

CONSTANTS Clients,     \* addresses
          MaxRequests, \* EP_PROXY_RATE_LIMIT
          Window,      \* EP_PROXY_RATE_WINDOW
          EndOfTime    \* bound of the clock

ASSUME LimitAssumption == MaxRequests \in Nat /\ Window \in Int /\ EndOfTime \in Nat

VARIABLES time,
          up,       \* the process runs
          requests, \* RateLimiter._requests
          serving,  \* the client whose request is in the handler and how far it got, or Null
          passed,   \* history: the times of all requests let through by this process
          refused   \* history: the last refusal of this process, or Null

proxyVars == <<time, up, requests, serving, passed, refused>>

Nothing == [c \in Clients |-> <<>>]

ProxyInit == /\ time = 0
             /\ up = TRUE
             /\ requests = Nothing /\ serving = Null
             /\ passed = Nothing /\ refused = Null

\* Monotonic time, which passes while a request is in the handler, too.
Pass == /\ time < EndOfTime
        /\ time' = time + 1
        /\ UNCHANGED <<up, requests, serving, passed, refused>>

(***************************************************************************)
(* RateLimiter.check                                                       *)
(***************************************************************************)
\* Requests are popped from the front up to the first one within the window.
Oldest(c) == Min({i \in 1..Len(requests[c]) : requests[c][i] > time - Window}
                     \union {Len(requests[c]) + 1})
Recent(c) == SubSeq(requests[c], Oldest(c), Len(requests[c]))

FaultyHasRoom(c) == Len(Recent(c)) <= MaxRequests

HasRoom(c) == Len(Recent(c)) < MaxRequests

\* do_POST /execute. The limiter comes first, and a refused request is answered at once.
Arrive(c) ==
    /\ up /\ serving = Null
    /\ IF HasRoom(c)
       THEN /\ requests' = [requests EXCEPT ![c] = Append(Recent(c), time)]
            /\ passed' = [passed EXCEPT ![c] = Append(@, time)]
            /\ serving' = [client |-> c, step |-> "read"]
            /\ UNCHANGED refused
       ELSE /\ requests' = [requests EXCEPT ![c] = Recent(c)]
            /\ refused' = [client |-> c, at |-> time]
            /\ UNCHANGED <<passed, serving>>
    /\ UNCHANGED <<time, up>>

\* The body is read whole, parsed, and holds both a token and a payload. A client that
\* sends less than it announced keeps the server here.
Read == /\ serving /= Null /\ serving.step = "read"
        /\ serving' = [serving EXCEPT !.step = "execute"]
        /\ UNCHANGED <<time, up, requests, passed, refused>>

\* A request that is invalid, or whose execution returned or raised, is answered. It
\* stays counted by the limiter.
Respond == /\ serving /= Null
           /\ serving' = Null
           /\ UNCHANGED <<time, up, requests, passed, refused>>

\* The process stops, whatever it is doing; the next one starts with an empty limiter.
StopService == /\ up
               /\ up' = FALSE
               /\ serving' = Null /\ requests' = Nothing
               /\ passed' = Nothing /\ refused' = Null
               /\ UNCHANGED time

StartService == /\ ~up
                /\ up' = TRUE
                /\ UNCHANGED <<time, requests, serving, passed, refused>>

ProxyNext == \/ Pass \/ Read \/ Respond \/ StopService \/ StartService
             \/ \E c \in Clients : Arrive(c)

ProxySpec == ProxyInit /\ [][ProxyNext]_proxyVars

(***************************************************************************)
(* Properties                                                              *)
(***************************************************************************)
\* The requests of c let through in the window that ends at t.
PassedWithin(c, t) ==
    Cardinality({i \in 1..Len(passed[c]) : t - Window < passed[c][i] /\ passed[c][i] <= t})

WindowRespected ==
    \A c \in Clients : \A t \in 0..EndOfTime : PassedWithin(c, t) <= MaxRequests

RefusalDeserved ==
    refused /= Null => PassedWithin(refused.client, refused.at) >= MaxRequests

\* The limit is exact, although the limiter keeps a pruned list and prunes it only when
\* the client comes back (RateLimiter.check): in no window, wherever it starts, does one
\* process let more through; and a client is refused only for what was let through for it
\* within the window, neither for other clients nor for its own refused attempts.
LimitIsExact == WindowRespected /\ RefusalDeserved

=============================================================================
