------------------------------ MODULE MCCapture ------------------------------
(* Small instances of Capture for TLC. *)
EXTENDS Capture

CONSTANTS game, local, relay

At(ip, port) == [ip |-> ip, port |-> port]

RuleOf(protocol, capture, lo, hi, listen, bridge) ==
    [protocol |-> protocol, capture |-> capture, dest |-> At(game, 1),
     capture_dst_ip |-> None, lo |-> lo, hi |-> hi,
     listen |-> At(local, listen), bridge |-> At(relay, bridge)]

\* Overlapping port ranges behind a tcp rule; a range on the bridge's own host that
\* stops short of its port; two bridges in smart mode.
MCSetups ==
    {[smart |-> FALSE,
      rules |-> <<RuleOf("tcp", TRUE, None, None, 1, 2), RuleOf("udp", TRUE, 1, 2, 2, 2),
                  RuleOf("udp", TRUE, 2, None, 1, 2)>>],
     [smart |-> FALSE,
      rules |-> <<[RuleOf("udp", TRUE, 1, None, 1, 2) EXCEPT !.capture_dst_ip = relay],
                  RuleOf("udp", FALSE, 1, 2, 2, 2)>>],
     [smart |-> TRUE,
      rules |-> <<RuleOf("udp", FALSE, None, None, 1, 1),
                  RuleOf("udp", FALSE, None, None, 2, 2)>>]}
===============================================================================
