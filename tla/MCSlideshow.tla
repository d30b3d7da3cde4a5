----------------------------- MODULE MCSlideshow -----------------------------
(* Slideshow on small instances: contents of ev[] before the first read(). *)
EXTENDS Slideshow

Zeroed   == {[type |-> EV_SYN, code |-> 0, value |-> 0]}
\* Whatever the stack held: among it, something that reads as a press of E.
Anything == Zeroed \cup {[type |-> EV_KEY, code |-> KEY_E, value |-> 1]}
=============================================================================
