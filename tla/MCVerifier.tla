------------------------------ MODULE MCVerifier ------------------------------
(* An instance of Verifier for TLC: two homeservers that may delegate to   *)
(* one of them, which may have SRV records, or to a name with a port.      *)
EXTENDS Verifier

CONSTANTS hs, other, withPort, k1, k2

NoHeaders == [noStore |-> FALSE, maxAge |-> Absent, expires |-> Absent]

WellKnownMay ==
    {[server |-> NoServer, headers |-> NoHeaders],
     [server |-> withPort, headers |-> NoHeaders],
     [server |-> other, headers |-> [NoHeaders EXCEPT !.maxAge = 3]],
     [server |-> EmptyServer, headers |-> [NoHeaders EXCEPT !.noStore = TRUE]],
     [server |-> Unencodable, headers |-> NoHeaders]}

Record(host, priority, weight, ttl) ==
    [host |-> host, priority |-> priority, weight |-> weight, ttl |-> ttl]

SrvMay ==
    [s \in Service |-> [n \in Name |->
        IF s = "_matrix" /\ n = other
        THEN {DomainError, Unavailable, <<Record(other, 1, 0, 1), Record(hs, 1, 2, 1)>>}
        ELSE {NameError}]]

SignedBy(o, k, good) == [origin |-> o, key |-> k, good |-> good]

UnbindMay ==
    {[server |-> hs, session |-> "none", headers |-> <<>>],
     [server |-> hs, session |-> "none",
      headers |-> <<SignedBy(other, k2, TRUE), SignedBy(hs, k1, FALSE)>>],
     [server |-> hs, session |-> "none", headers |-> <<SignedBy(other, k1, TRUE)>>],
     [server |-> withPort, session |-> "none",
      headers |-> <<SignedBy(hs, k2, TRUE), SignedBy(hs, k1, TRUE)>>]}
    \cup {[server |-> hs, session |-> s, headers |-> <<>>] :
             s \in {"valid", "wrong", "unvalidated", "expired", "other"}}

(* The port of withPort is the name of hs.                                 *)
EndsWithPort == [n \in Name |-> IF n = withPort THEN {withPort, hs} ELSE {n}]

KeysMay ==
    {ConnectionError, Malformed,
     [keys |-> {k1}, until |-> 1], [keys |-> {k1, k2}, until |-> Absent]}
=============================================================================
