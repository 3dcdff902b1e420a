----------------------------- MODULE MCContext -----------------------------
(* Small instances of Context for TLC. *)
EXTENDS Context

(* The README's command lines in small: two queue pairs, two requests of   *)
(* one and two elements. *)
Plain ==
  [husky |-> FALSE, server |-> TRUE, sharePd |-> TRUE, shareCq |-> FALSE,
   hosts |-> 1, qps |-> 2, mrs |-> 2, bufs |-> 2, cqDepth |-> 5,
   recvDepth |-> 2, pattern |-> <<1, 2>>]

(* Both engines and both sides; pools of one buffer and of none; more      *)
(* hosts or regions than protection domains.                               *)
MCSettings ==
  {[Plain EXCEPT !.husky = h, !.server = s] : h, s \in BOOLEAN}
  \cup {[Plain EXCEPT !.mrs = 1, !.bufs = b, !.shareCq = TRUE] : b \in 0 .. 1}
  \cup {[Plain EXCEPT !.sharePd = FALSE, !.husky = h, !.mrs = m, !.hosts = 3 - m] :
          h \in BOOLEAN, m \in {1, 2}}
  \cup {[Plain EXCEPT !.sharePd = FALSE, !.qps = 1, !.server = FALSE]}

ReadmeOnly == {Plain}
=============================================================================
