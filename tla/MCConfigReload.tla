--------------------------- MODULE MCConfigReload ---------------------------
(* Small instances of ConfigReload: the template, another good document, one that
   is no JSON as a whole but begins like it, and texts cut short that parse as far
   as json.cpp has it. *)
EXTENDS ConfigReload, JsonText

template == Bytes("{\"m\":{\"on\":false}} // jpr\n")
edited   == Bytes("{\"m\":{\"on\":true,\"ms\":[9,16]}}")
broken   == Bytes("{\"ms\":90}, \"x\"")

MCDocuments == {template, edited, broken}

(* Cut in a comment, in a string, in a number, behind a value or a brace, or
   before anything was written. *)
Cuts == [d \in MCDocuments |->
           CASE d = template -> {0, 12, 18, 23} [] d = edited -> {5, 24} [] OTHER -> {9}]

MCParts == [d \in MCDocuments |-> {SubSeq(d, 1, n) : n \in Cuts[d]}]

Read(t) ==
  LET result == ParseText(t)
  IN  IF result.ok /\ result.value.type = "object" THEN result.value ELSE Invalid

Readings ==
  [t \in MCDocuments \cup UNION {MCParts[d] : d \in MCDocuments} \cup {Mixed} |->
     IF t = Mixed THEN Invalid ELSE Read(t)]

(* By two names: TLC evaluates what a .cfg puts in a constant's place each time it
   is asked for, what a definition refers to once. *)
MCReading == Readings
=============================================================================
