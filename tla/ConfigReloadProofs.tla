------------------------- MODULE ConfigReloadProofs -------------------------
(***************************************************************************)
(* Whatever an editor does between two system calls of the mod, what is in *)
(* force comes from a whole document: for every set of documents, every    *)
(* way to cut them and every parser that refuses a part or reads it as the *)
(* whole.  Nothing is said of fairness, and none is needed.                *)
(***************************************************************************)
EXTENDS ConfigReload, TLAPS

(* A text that came from a document somebody set out to write. *)
Accounted(t) == t = Mixed \/ \E d \in meant : t = d \/ t \in Parts[d]

Sources ==
  /\ Template \in meant
  /\ file # Absent => Accounted(file)
  /\ unwritten # NoDocument => Accounted(unwritten)
  /\ text # Absent => Accounted(text)

(* What is in force came from a document. *)
FromDocument == root \in UNION {Says(d) : d \in meant}

(* What is in force gives way only to the text at hand. *)
GivesWay == loaded /\ root' # root => Good(text) /\ root' = Reading[text]

Inv == TypeOK /\ Sources /\ FromDocument

-----------------------------------------------------------------------------
(* What a text with a source says is what its document may bring into force. *)
LEMMA SaysOfAccounted ==
  ASSUME TypeOK, NEW t, Accounted(t), Good(t)
  PROVE  Reading[t] \in UNION {Says(d) : d \in meant}
<1>1. PICK d \in meant : t = d \/ t \in Parts[d]
  BY TextsAssumption DEF Accounted
<1>2. d \in Documents
  BY DEF TypeOK
<1>3. Reading[t] # Invalid
  BY DEF Good
<1>4. Reading[t] \in Says(d)
  <2>1. CASE Good(d)
    BY <1>1, <1>2, <1>3, <2>1, PartsAssumption DEF Says
  <2>2. CASE ~Good(d)
    <3>1. t \in Parts[d]
      BY <1>1, <2>2
    <3> QED
      BY <1>3, <2>2, <3>1 DEF Says
  <2> QED
    BY <2>1, <2>2
<1> QED
  BY <1>1, <1>4

LEMMA TemplateSays ==
  ASSUME TypeOK, Template \in meant
  PROVE  Reading[Template] \in UNION {Says(d) : d \in meant}
<1>1. Accounted(Template)
  BY DEF Accounted
<1> QED
  BY <1>1, SaysOfAccounted, TextsAssumption

(* More documents do no harm. *)
LEMMA MoreMeant ==
  ASSUME Inv, meant \subseteq meant', UNCHANGED root
  PROVE  /\ FromDocument'
         /\ Template \in meant'
         /\ \A t : Accounted(t) => Accounted(t)'
<1>1. FromDocument'
  BY DEF Inv, FromDocument, Says, Good
<1> QED
  BY <1>1 DEF Inv, Sources, Accounted

LEMMA TextsAreTyped ==
  /\ \A d \in Documents : d \in Texts
  /\ \A d \in Documents : \A part \in Parts[d] : part \in Texts
  /\ Mixed \in Texts
  /\ Absent \notin Texts /\ NoDocument \notin Texts
<1>1. \A d \in Documents : d \in Texts
  BY DEF Texts
<1>2. ASSUME NEW d \in Documents, NEW part \in Parts[d] PROVE part \in Texts
  <2>1. part \in UNION {Parts[e] : e \in Documents}
    OBVIOUS
  <2> QED
    BY <2>1 DEF Texts
<1>3. Mixed \in Texts
  BY DEF Texts
<1> QED
  BY <1>1, <1>2, <1>3, TextsAssumption

-----------------------------------------------------------------------------
LEMMA InitInv == Init => Inv
<1> SUFFICES ASSUME Init PROVE Inv
  OBVIOUS
<1> Template \in Documents /\ Template # Absent
  BY TextsAreTyped, TextsAssumption
<1>1. TypeOK
  <2>1. mtime \in 0..MaxSecond /\ second \in 1..MaxSecond
    BY BoundsAssumption DEF Init
  <2>2. edits \in 0..MaxEdits /\ lastModified \in 0..MaxSecond
    BY BoundsAssumption DEF Init
  <2>3. file \in Texts \cup {Absent} /\ meant \subseteq Documents
    BY TextsAreTyped DEF Init
  <2> QED
    BY <2>1, <2>2, <2>3, OpensAssumption DEF Init, TypeOK
<1>2. Sources
  <2>1. Template \in meant /\ (file # Absent => file \in meant)
    BY DEF Init
  <2> QED
    BY <2>1 DEF Init, Sources, Accounted
<1>3. FromDocument
  BY <1>1, <1>2, TemplateSays DEF Sources, Init, FromDocument
<1> QED
  BY <1>1, <1>2, <1>3 DEF Inv

(* A touch of the editor's: content of the document, the rest to follow. *)
LEMMA TouchInv ==
  ASSUME Inv, NEW d \in Documents, NEW content \in Texts, NEW rest \in {d, NoDocument},
         content = d \/ content \in Parts[d],
         Touch(content, {d}, rest)
  PROVE  Inv'
<1>1. TypeOK'
  BY TextsAreTyped, BoundsAssumption DEF Inv, TypeOK, Touch, config
<1>2. meant \subseteq meant' /\ UNCHANGED <<root, text>> /\ d \in meant'
  BY TextsAreTyped DEF Touch, config
<1>3. Accounted(content)' /\ Accounted(d)'
  BY <1>2 DEF Accounted
<1>4. Sources'
  <2>1. file' # Absent => Accounted(file)'
    BY <1>3 DEF Touch
  <2>2. unwritten' # NoDocument => Accounted(unwritten)'
    BY <1>3 DEF Touch
  <2>3. text' # Absent => Accounted(text)'
    BY <1>2, MoreMeant DEF Inv, Sources
  <2> QED
    BY <1>2, <2>1, <2>2, <2>3, MoreMeant DEF Sources
<1> QED
  BY <1>1, <1>2, <1>4, MoreMeant DEF Inv

LEMMA NextInv == Inv /\ [Next]_vars => Inv'
<1> SUFFICES ASSUME Inv, [Next]_vars PROVE Inv'
  OBVIOUS
<1> USE DEF Inv
<1>1. CASE CheckModified
  <2>1. TypeOK'
    BY <1>1 DEF CheckModified, TypeOK, editor, disk, config
  <2> QED
    BY <1>1, <2>1 DEF CheckModified, Sources, Accounted, FromDocument, Says, Good, editor, disk, config
<1>2. CASE ReadFile
  <2>1. TypeOK'
    BY <1>2, TextsAreTyped DEF ReadFile, TypeOK, editor, disk, config
  <2> QED
    BY <1>2, <2>1 DEF ReadFile, Sources, Accounted, FromDocument, Says, Good, editor, disk, config
<1>3. CASE WriteTemplate
  <2>1. TypeOK'
    BY <1>3, TextsAreTyped, TextsAssumption
    DEF WriteTemplate, Overwrite, TypeOK, editor, disk, config
  <2>2. UNCHANGED <<meant, root>> /\ text' = Template
    BY <1>3 DEF WriteTemplate, editor, config
  <2>3. Template \in meant' /\ FromDocument' /\ \A t : Accounted(t) => Accounted(t)'
    BY <2>2, MoreMeant
  <2>4. Accounted(Template)' /\ (\A t \in Parts[Template] : Accounted(t)') /\ Accounted(Mixed)'
    BY <2>3 DEF Accounted
  <2>5. file' # Absent => Accounted(file)'
    BY <1>3, <2>3, <2>4 DEF WriteTemplate, Overwrite, Sources, disk
  <2>6. unwritten' # NoDocument => Accounted(unwritten)'
    BY <1>3, <2>3, <2>4 DEF WriteTemplate, Overwrite, Sources, disk
  <2> QED
    BY <2>1, <2>2, <2>3, <2>4, <2>5, <2>6 DEF Sources
<1>4. CASE Parse
  <2>1. TypeOK'
    BY <1>4 DEF Parse, TypeOK, editor, disk
  <2>2. UNCHANGED <<meant, file, unwritten, text>>
    BY <1>4 DEF Parse, editor, disk
  <2>3. Sources'
    BY <2>2 DEF Sources, Accounted
  <2>4. root' \in UNION {Says(d) : d \in meant}
    <3>1. CASE Good(text)
      <4>1. Accounted(text) /\ root' = Reading[text]
        BY <1>4, <3>1 DEF Parse, TypeOK, Sources
      <4> QED
        BY <3>1, <4>1, SaysOfAccounted
    <3>2. CASE ~Good(text) /\ loaded
      BY <1>4, <3>2 DEF Parse, FromDocument
    <3>3. CASE ~Good(text) /\ ~loaded
      BY <1>4, <3>3, TemplateSays DEF Parse, Sources
    <3> QED
      BY <3>1, <3>2, <3>3
  <2>5. FromDocument'
    BY <2>2, <2>4 DEF FromDocument, Says, Good
  <2> QED
    BY <2>1, <2>3, <2>5
<1>5. CASE Stat
  <2>1. TypeOK'
    BY <1>5 DEF Stat, TypeOK, editor, disk
  <2> QED
    BY <1>5, <2>1 DEF Stat, Sources, Accounted, FromDocument, Says, Good, editor, disk
<1>6. CASE Save
  <2>1. PICK d \in Documents : Touch(d, {d}, NoDocument)
    BY <1>6 DEF Save
  <2> QED
    BY <2>1, TouchInv, TextsAreTyped
<1>7. CASE Begin
  <2>1. PICK d \in Documents : \E part \in Parts[d] : Touch(part, {d}, d)
    BY <1>7 DEF Begin
  <2>2. PICK part \in Parts[d] : Touch(part, {d}, d)
    BY <2>1
  <2> QED
    BY <2>2, TouchInv, TextsAreTyped
<1>8. CASE RemoveFile
  <2>1. TypeOK'
    BY <1>8, BoundsAssumption DEF RemoveFile, Touch, TypeOK, config
  <2>2. file' = Absent /\ unwritten' = NoDocument /\ UNCHANGED <<text, root>> /\ meant' = meant
    BY <1>8 DEF RemoveFile, Touch, config
  <2> QED
    BY <2>1, <2>2 DEF Sources, Accounted, FromDocument, Says, Good
<1>9. CASE Finish
  <2>1. TypeOK'
    BY <1>9, TextsAreTyped DEF Finish, TypeOK, editor, config
  <2> QED
    BY <1>9, <2>1 DEF Finish, Sources, Accounted, FromDocument, Says, Good, editor, config
<1>10. CASE SecondPasses
  <2>1. TypeOK'
    BY <1>10, BoundsAssumption DEF SecondPasses, TypeOK, disk, config
  <2> QED
    BY <1>10, <2>1 DEF SecondPasses, Sources, Accounted, FromDocument, Says, Good, disk, config
<1>11. CASE UNCHANGED vars
  <2>1. TypeOK'
    BY <1>11 DEF TypeOK, vars
  <2> QED
    BY <1>11, <2>1 DEF Sources, Accounted, FromDocument, Says, Good, vars
<1> QED
  BY <1>1, <1>2, <1>3, <1>4, <1>5, <1>6, <1>7, <1>8, <1>9, <1>10, <1>11 DEF Next, Mod

-----------------------------------------------------------------------------
(* ConfigReload's type invariant; load() never goes on to parse a file it did not
   get, however the system calls and the editor interleave. *)
THEOREM TypeCorrect == Spec => []TypeOK
<1>1. Inv => TypeOK
  BY DEF Inv
<1> QED
  BY <1>1, InitInv, NextInv, PTL DEF Spec

LEMMA OnlyLoadsGiveWay ==
  ASSUME [Next]_vars
  PROVE  GivesWay
<1>1. CASE Parse
  BY <1>1 DEF Parse, GivesWay
<1>2. CASE CheckModified \/ ReadFile \/ WriteTemplate \/ Stat
  BY <1>2 DEF CheckModified, ReadFile, WriteTemplate, Stat, config, GivesWay
<1>3. CASE Save \/ Begin \/ RemoveFile \/ Finish \/ SecondPasses \/ UNCHANGED vars
  BY <1>3 DEF Save, Begin, RemoveFile, Touch, Finish, SecondPasses, config, vars, GivesWay
<1> QED
  BY <1>1, <1>2, <1>3 DEF Next, Mod

(* "keeping the previously loaded settings": the modules never lose theirs to a
   save that is cut short, that is no JSON or that collides with the template. *)
THEOREM SettingsSurvive == Spec => LastGoodKept
<1>1. Inv => FromDocument
  BY DEF Inv
<1>2. [Next]_vars => [GivesWay]_vars
  BY OnlyLoadsGiveWay
<1> QED
  BY <1>1, <1>2, InitInv, NextInv, PTL DEF Spec, LastGoodKept, FromDocument, GivesWay

-----------------------------------------------------------------------------
(* What PatientEditsTakeEffect needs of the states, whatever becomes of the edit in
   the end: reloadIfChanged() takes the file for the one it read only when what the
   modules are configured from is what the file says. *)
InForce ==
  step = "idle" /\ loaded /\ mtime = lastModified /\ file # Absent /\ Good(file)
    => root = Reading[file]

(* What parse() is about to be given is in the file, or it is the template, of which
   the file has some or nothing. *)
ReadWhole ==
  \/ text = file
  \/ text = Template /\ file \in {Absent, Template} \cup Parts[Template]

(* What holds from one system call of a load to the next when nobody comes between. *)
Undisturbed ==
  /\ unwritten = NoDocument
  /\ step = "create" => file = Absent
  /\ step = "parse" => ReadWhole
  /\ step = "stat" => (file # Absent /\ Good(file) => root = Reading[file])
  /\ InForce

PatientInv == Inv /\ (patient /\ opens => Undisturbed)

LEMMA ReadWholeReadsFile ==
  ASSUME TypeOK, ReadWhole, file # Absent, Good(file)
  PROVE  Good(text) /\ Reading[text] = Reading[file]
BY TextsAssumption, PartsAssumption DEF ReadWhole

LEMMA InitPatientInv == Init => PatientInv
BY InitInv DEF Init, PatientInv, Undisturbed, InForce

LEMMA NextPatientInv == PatientInv /\ [Next]_vars => PatientInv'
<1> SUFFICES ASSUME PatientInv, [Next]_vars, patient', opens' PROVE Undisturbed'
  BY NextInv DEF PatientInv
<1>1. patient /\ opens
  BY DEF Next, Mod, CheckModified, ReadFile, WriteTemplate, Parse, Stat, Save, Begin,
     RemoveFile, Touch, Finish, SecondPasses, editor, vars
<1>2. Undisturbed /\ TypeOK
  BY <1>1 DEF PatientInv, Inv
<1>3. CASE CheckModified
  BY <1>2, <1>3 DEF CheckModified, Undisturbed, InForce, disk
<1>4. CASE ReadFile
  BY <1>1, <1>2, <1>4 DEF ReadFile, Undisturbed, InForce, ReadWhole, disk
<1>5. CASE WriteTemplate
  <2>1. unwritten' = NoDocument
    BY <1>2, <1>5 DEF WriteTemplate, Overwrite, Undisturbed, disk
  <2>2. step' = "parse" /\ text' = Template
    BY <1>5 DEF WriteTemplate
  <2>3. file' \in {Absent, Template} \cup Parts[Template]
    BY <1>2, <1>5 DEF WriteTemplate, Overwrite, Undisturbed, disk
  <2> QED
    BY <2>1, <2>2, <2>3 DEF Undisturbed, InForce, ReadWhole
<1>6. CASE Parse
  <2>1. step = "parse" /\ UNCHANGED <<file, unwritten, text>> /\ ReadWhole
    BY <1>2, <1>6 DEF Parse, Undisturbed, disk, editor
  <2>2. file # Absent /\ Good(file) => root' = Reading[file] /\ step' = "stat"
    BY <1>2, <1>6, <2>1, ReadWholeReadsFile DEF Parse
  <2>3. step' \in {"idle", "stat"}
    BY <1>6 DEF Parse
  <2> QED
    BY <1>2, <2>1, <2>2, <2>3 DEF Undisturbed, InForce, Good
<1>7. CASE Stat
  BY <1>2, <1>7 DEF Stat, Undisturbed, InForce, Good, disk
<1>8. CASE Save
  <2>1. PICK d \in Documents : Touch(d, {d}, NoDocument)
    BY <1>8 DEF Save
  <2>2. step = "idle" /\ second # lastModified
    BY <1>1, <1>8 DEF Save, Unhurried
  <2>3. unwritten' = NoDocument /\ step' = "idle" /\ mtime' # lastModified'
    BY <2>1, <2>2, TextsAreTyped DEF Touch, config
  <2> QED
    BY <2>3 DEF Undisturbed, InForce
<1>9. CASE Begin
  BY <1>1, <1>9 DEF Begin
<1>10. CASE RemoveFile
  <2>1. step = "idle" /\ Touch(Absent, {}, NoDocument)
    BY <1>1, <1>10 DEF RemoveFile, Unhurried
  <2> QED
    BY <2>1 DEF Touch, Undisturbed, InForce
<1>11. CASE Finish
  BY <1>2, <1>11 DEF Finish, Undisturbed
<1>12. CASE SecondPasses
  BY <1>2, <1>12 DEF SecondPasses, Undisturbed, InForce, ReadWhole, Good, disk, config
<1>13. CASE UNCHANGED vars
  BY <1>2, <1>13 DEF vars, Undisturbed, InForce, ReadWhole, Good
<1> QED
  BY <1>3, <1>4, <1>5, <1>6, <1>7, <1>8, <1>9, <1>10, <1>11, <1>12, <1>13 DEF Next, Mod

(* "edits take effect without restarting the game", as far as a state can tell: for
   an editor who leaves a second between two edits and does not edit during a load,
   where a file that is there opens, the time stamp never makes the mod pass over what
   it has not read. *)
THEOREM PatientEditsAreNotMissed == Spec => [](patient /\ opens => InForce)
<1>1. PatientInv => (patient /\ opens => InForce)
  BY DEF PatientInv, Undisturbed
<1> QED
  BY <1>1, InitPatientInv, NextPatientInv, PTL DEF Spec
=============================================================================
