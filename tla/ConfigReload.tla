---------------------------- MODULE ConfigReload ----------------------------
(***************************************************************************)
(* jpr.json and the mod that watches it: Config::load() at startup,        *)
(* Config::reloadIfChanged() from every 500ms' pump, and somebody else,    *)
(* an editor, saving or removing the file between any two system calls     *)
(* (stat, open and read, create and write) of the mod.  What a text says   *)
(* is up to Reading; st_mtime counts whole seconds.                        *)
(***************************************************************************)
EXTENDS Naturals

CONSTANTS
  Documents,    \* what an editor may save
  Template,     \* kTemplate
  Parts,        \* of a document, the beginnings a reader may get of it
  Reading,      \* what json::parse() makes of a text
  Invalid,      \* no JSON object
  Absent,       \* no file
  NoDocument,   \* nothing is being written
  Mixed,        \* what two writers leave behind, taken to be no JSON
  Opens,        \* whether a file that is there can be opened whenever it is tried: the
                \* answers a start may find
  MaxEdits,     \* bound: how often the file is touched
  MaxSecond     \* bound: how far the clock runs

Texts == Documents \cup (UNION {Parts[d] : d \in Documents}) \cup {Mixed}

Good(text) == Reading[text] # Invalid

ASSUME TextsAssumption ==
  /\ Template \in Documents /\ Good(Template)
  /\ DOMAIN Parts = Documents /\ DOMAIN Reading = Texts
  /\ Mixed \notin Documents /\ ~Good(Mixed)
  /\ Absent \notin Texts /\ NoDocument \notin Texts
ASSUME OpensAssumption == Opens \subseteq BOOLEAN
ASSUME BoundsAssumption == MaxEdits \in Nat /\ MaxSecond \in Nat \ {0}

(* What DamageRefused of JsonEdits says of the parser: the beginning of a document
   that parses is refused, or says all of it. *)
ASSUME PartsAssumption ==
  \A d \in Documents : \A part \in Parts[d] :
    Good(d) /\ Good(part) => Reading[part] = Reading[d]

VARIABLES
  patient,       \* TRUE: edits come a second apart and never during a load
  opens,         \* this start's answer to Opens
  file,          \* what is on disk at path_
  unwritten,     \* the document an edit in place has yet to write the rest of
  mtime,         \* its st_mtime, 0 without a file
  second,        \* the wall clock
  edits,         \* history: how often the editor touched the file
  meant,         \* history: the documents that were there or begun to be written
  step,          \* where the mod is: idle, read, create, parse, stat
  text,          \* load()'s local text
  root,          \* root_, what the modules are configured from
  lastModified,  \* lastModified_
  loaded         \* loaded_

vars == <<patient, opens, file, unwritten, mtime, second, edits, meant,
          step, text, root, lastModified, loaded>>
editor == <<patient, opens, second, edits, meant>>
disk == <<file, unwritten, mtime>>
config == <<root, lastModified, loaded>>

(* mod_init() loads; root_ is not looked at before that. *)
Init ==
  /\ patient \in BOOLEAN /\ opens \in Opens
  /\ file \in Documents \cup {Absent} /\ unwritten = NoDocument
  /\ meant = {file, Template} \ {Absent}
  /\ second = 1 /\ mtime = (IF file = Absent THEN 0 ELSE 1)
  /\ edits = 0
  /\ step = "read" /\ text = Absent
  /\ root = Reading[Template] /\ lastModified = 0 /\ loaded = FALSE

(* reloadIfChanged(): one stat decides. *)
CheckModified ==
  /\ step = "idle" /\ loaded
  /\ mtime # 0 /\ mtime # lastModified
  /\ step' = "read"
  /\ UNCHANGED <<editor, disk, text, config>>

(* load(): read the file, if there is one that can be opened: no more is asked; *)
ReadFile ==
  /\ step = "read"
  /\ text' \in IF opens THEN {file} ELSE {file, Absent}
  /\ step' = IF text' = Absent THEN "create" ELSE "parse"
  /\ UNCHANGED <<editor, disk, config>>

(* An edit in place that is under way goes on in what is no longer its document. *)
Overwrite(content) ==
  /\ file' = content /\ mtime' = second
  /\ unwritten' = IF unwritten = NoDocument THEN NoDocument ELSE Mixed

(* Fault: the template is written and the empty text parsed. *)
WriteTemplateOnly ==
  /\ step = "create"
  /\ Overwrite(Template)
  /\ step' = "parse"
  /\ UNCHANGED <<editor, text, config>>

(* if there was none write the template over whatever is there by now, and go on
   with it, written or not: the file may not open, or the disk be full; *)
WriteTemplate ==
  /\ step = "create"
  /\ \/ \E content \in {Template} \cup Parts[Template] : Overwrite(content)
     \/ UNCHANGED disk
  /\ text' = Template
  /\ step' = "parse"
  /\ UNCHANGED <<editor, config>>

(* Fault: a text that is no good brings the template, at any load. *)
ParseFallsBack ==
  /\ step = "parse"
  /\ root' = Reading[IF Good(text) THEN text ELSE Template] /\ step' = "stat"
  /\ UNCHANGED <<editor, disk, text, lastModified, loaded>>

(* Fault: the early return is taken for every later load, good text or not. *)
ParseOnlyOnce ==
  /\ step = "parse"
  /\ IF loaded THEN UNCHANGED root /\ step' = "idle"
     ELSE root' = Reading[IF Good(text) THEN text ELSE Template] /\ step' = "stat"
  /\ UNCHANGED <<editor, disk, text, lastModified, loaded>>

(* keep the settings in force when the new text is no good, fall back to the
   template when there are none yet; *)
Parse ==
  /\ step = "parse"
  /\ IF Good(text) THEN root' = Reading[text] /\ step' = "stat"
     ELSE IF loaded THEN UNCHANGED root /\ step' = "idle"
     ELSE root' = Reading[Template] /\ step' = "stat"
  /\ UNCHANGED <<editor, disk, text, lastModified, loaded>>

(* Fault: the time stamp is left as it was. *)
StatForgotten ==
  /\ step = "stat"
  /\ loaded' = TRUE
  /\ step' = "idle"
  /\ UNCHANGED <<editor, disk, text, root, lastModified>>

(* and note the time stamp the file has by now. *)
Stat ==
  /\ step = "stat"
  /\ lastModified' = mtime
  /\ loaded' = TRUE
  /\ step' = "idle"
  /\ UNCHANGED <<editor, disk, text, root>>

Mod == CheckModified \/ ReadFile \/ WriteTemplate \/ Parse \/ Stat

-----------------------------------------------------------------------------
Unhurried == patient => step = "idle" /\ second # mtime /\ second # lastModified

Touch(content, document, rest) ==
  /\ edits < MaxEdits
  /\ edits' = edits + 1
  /\ file' = content /\ unwritten' = rest
  /\ meant' = meant \cup (document \ {Absent})
  /\ mtime' = IF content = Absent THEN 0 ELSE second
  /\ UNCHANGED <<patient, opens, second, step, text, config>>

(* An editor renames a finished file over it, truncates it and writes it anew, or
   removes it. *)
Save       == Unhurried /\ \E d \in Documents : Touch(d, {d}, NoDocument)
Begin      == ~patient /\ \E d \in Documents : \E part \in Parts[d] : Touch(part, {d}, d)
RemoveFile == Unhurried /\ file # Absent /\ Touch(Absent, {}, NoDocument)

(* The end of an edit in place. *)
Finish ==
  /\ unwritten # NoDocument
  /\ file' = unwritten /\ unwritten' = NoDocument
  /\ mtime' = second
  /\ UNCHANGED <<editor, step, text, config>>

SecondPasses ==
  /\ second < MaxSecond /\ second' = second + 1
  /\ UNCHANGED <<patient, opens, edits, meant, disk, step, text, config>>

Next == Mod \/ Save \/ Begin \/ RemoveFile \/ Finish \/ SecondPasses

Spec == Init /\ [][Next]_vars

(* The tick source goes on, and so does an edit once begun. *)
FairSpec == Spec /\ WF_vars(Mod) /\ WF_vars(Finish)

-----------------------------------------------------------------------------
(* Type invariant; load() never goes on to parse a file it did not get. *)
TypeOK ==
  /\ patient \in BOOLEAN /\ opens \in BOOLEAN
  /\ file \in Texts \cup {Absent} /\ unwritten \in Documents \cup {NoDocument, Mixed}
  /\ mtime \in 0..MaxSecond /\ second \in 1..MaxSecond
  /\ edits \in 0..MaxEdits /\ meant \subseteq Documents
  /\ step \in {"idle", "read", "create", "parse", "stat"}
  /\ text \in Texts \cup {Absent}
  /\ step = "parse" => text # Absent
  /\ lastModified \in 0..MaxSecond /\ loaded \in BOOLEAN

(* All a document may bring into force: what it says or, when it is no JSON, what a
   part of it says that is. *)
Says(d) == {Reading[t] : t \in IF Good(d) THEN {d} ELSE Parts[d]} \ {Invalid}

(* config.cpp: "keeping the previously loaded settings".  Settings once loaded give
   way only to what the text at hand says, if it is a JSON object: a save that is cut
   short or is no JSON never costs the modules theirs, be it for the template.  The
   text at hand is what the load got of the file, or the template when it got none.
   And what is in force always comes from the template, from a document that lay
   there or from one an editor set out to save, never from a part of one that
   parses. *)
LastGoodKept ==
  /\ [][loaded /\ root' # root => Good(text) /\ root' = Reading[text]]_vars
  /\ [](root \in UNION {Says(d) : d \in meant})

(* config.h: "Re-reads when the file changed on disk [...] so edits take
   effect without restarting the game": what the editor leaves on disk for
   good is what the modules end up with. *)
EditsTakeEffect ==
  \A d \in Documents : Good(d) => (<>[](file = d) => <>[](root = Reading[d]))

(* It holds of an editor who leaves a second between two edits, and does not
   edit while the mod is loading, on a system where a file that is there opens:
   load() takes one that does not for none, and notes its time stamp. *)
PatientEditsTakeEffect == patient /\ opens => EditsTakeEffect

(* A file that parses and is left alone is read once, not every half second. *)
ReloadsSettle == <>[](file # Absent /\ Good(file)) => <>[](step = "idle")
=============================================================================
