-------------------------- MODULE MCSequenceRaces ---------------------------
(* Two jump keys; the file left alone, with and without synthetic hits, or
   edited to name either key and to switch the module off and on. *)
EXTENDS SequenceRaces

CONSTANTS space, w

MCKeys == {space, w}

MCWorlds ==
  {[keys |-> {space}, enabled |-> {TRUE}, cancel |-> c, debug |-> d] : c, d \in BOOLEAN}
    \cup {[keys |-> MCKeys, enabled |-> BOOLEAN, cancel |-> TRUE, debug |-> FALSE]}
=============================================================================
