------------------------------- MODULE MCBridge -------------------------------
(* Small instances of Bridge for TLC. *)
EXTENDS Bridge

CONSTANTS k1, k2, a1, a2

Syn(k, a, t, p) == [kind |-> "syn", skey |-> k, aead |-> a, token |-> t, proto |-> p]
Data(k, a, n)   == [kind |-> "data", skey |-> k, aead |-> a, seq |-> n]

\* One client that reconnects: a first SYN, and a second one with the same
\* address and connection id but a new key, with data sealed under the first.
Reconnect == {Syn(k1, a1, "valid", "udp"), Syn(k1, a2, "valid", "tcp"),
              Data(k1, a1, 1)}

\* A client that reconnects and sends, beside another one, of another scope and
\* with the same name for its key.
ThreeSyns == {Syn(k1, a1, "valid", "udp"), Syn(k1, a2, "valid", "tcp"),
              Syn(k2, a1, "unscoped", "udp"), Data(k1, a1, 1)}

\* A client of a TCP destination and one of a UDP destination.
Stall == {Syn(k1, a1, "valid", "tcp"), Syn(k2, a2, "valid", "udp"),
          Data(k1, a1, 1)}

\* One client with a TCP destination.
OneClient == {Syn(k1, a1, "valid", "tcp"), Data(k1, a1, 1)}
===============================================================================
