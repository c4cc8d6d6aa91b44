-------------------------- MODULE SignatureTargets --------------------------
(* signatures.cpp and installHooks() of game_hooks.cpp: the targets of the file
   for the running version become addresses, and what could be located is
   hooked.  Patterns are read and scanned for as SigScan says.  An address is a
   number, 0 for null: a place in the game's text or what an exported symbol has. *)
EXTENDS SigScan

CONSTANTS
  Starts,      \* what the mod may find: pairs of a pair of files, which are
               \* <version>-<abi>.json and <version>.json, each the sequence of
               \* its "targets" entries,
  NoFile,      \* or not there, the version being unknown included,
  Invalid,     \* or no JSON,
               \* and the game's text, << >> when its range is not known
  Exported,    \* symbol |-> address, for those the game exports
  Byte         \* what the text consists of

CountLimit == 4

(* An entry's members; "" is a symbol and << >> a pattern that is not there.
   What its author means by the pattern is not in the file: << >> where it is
   none, or none that parsePattern() promises to take. *)
Entry == [name: STRING, object: BOOLEAN, kind: STRING, symbol: STRING,
          pattern: Seq(STRING), means: Seq(Byte \cup {Wild}), occurrence: Int, offset: Int]

ASSUME StartsAssumption ==
  \A s \in Starts : \A i \in 1..2 : s[1][i] \in {NoFile, Invalid} \/ s[1][i] \in Seq(Entry)
ASSUME ExportedAssumption ==
  "" \notin DOMAIN Exported /\ \A s \in DOMAIN Exported : Exported[s] \in Nat \ {0}
ASSUME TextsAssumption ==
  Byte \subseteq 0..255 /\ Wild \notin Byte /\ \A s \in Starts : s[2] \in Seq(Byte)

VARIABLES
  candidates,  \* the files of this start
  text,        \* the game's code, << >> when its range is not known
  phase,       \* where load() and installHooks() are
  file,        \* the entries of the file that was chosen
  at,          \* the entry or target dealt with next
  targets,     \* targets_, each an entry, the address it resolved to and by what,
               \* and how often its pattern was counted
  identity,    \* how the local player is told apart: "none", "pointer", "getter"
  causeAt,     \* gDamageCauseOffset once gReadDamageCause is set, else -1
  hurt,        \* the damage hook that is in: "none", "mob_hurt" or "local_player_hurt"
  tick,        \* whether game_tick is hooked
  refused      \* the hooks hook::install() turned down

vars == <<candidates, text, phase, file, at, targets, identity, causeAt, hurt, tick, refused>>

world == <<candidates, text>>
hooks == <<identity, causeAt, hurt, tick, refused>>

Init ==
  /\ \E s \in Starts : candidates = s[1] /\ text = s[2]
  /\ phase = "load" /\ file = << >> /\ at = 1 /\ targets = << >>
  /\ identity = "none" /\ causeAt = -1 /\ hurt = "none" /\ tick = FALSE /\ refused = {}

-----------------------------------------------------------------------------
(* The first candidate that can be read; an invalid one is not made up for by
   the other. *)
Chosen == IF candidates[1] # NoFile THEN candidates[1] ELSE candidates[2]

Load ==
  /\ phase = "load"
  /\ IF Chosen \in {NoFile, Invalid}
     THEN phase' = "identity" /\ UNCHANGED file
     ELSE phase' = "parse" /\ file' = Chosen
  /\ UNCHANGED <<world, at, targets, hooks>>

LocatableAny(e) == e.object   \* Fault

Locatable(e) == e.object /\ (e.symbol # "" \/ e.pattern # << >>)

Unresolved(e) == [entry |-> e, address |-> 0, by |-> "", matches |-> 0]

Parse ==
  /\ phase = "parse" /\ at \in DOMAIN file
  /\ targets' = IF Locatable(file[at]) THEN Append(targets, Unresolved(file[at]))
                ELSE targets
  /\ at' = at + 1
  /\ UNCHANGED <<world, phase, file, hooks>>

Parsed ==
  /\ phase = "parse" /\ at \notin DOMAIN file
  /\ phase' = "resolve" /\ at' = 1
  /\ UNCHANGED <<world, file, targets, hooks>>

(* By symbol if the game exports it, else by pattern. *)
Resolution(e) ==
  LET pattern == parsePattern(e.pattern)
      match == IF Usable(pattern) THEN scan(text, pattern, e.occurrence) ELSE 0
  IN IF e.symbol \in DOMAIN Exported
     THEN [entry |-> e, address |-> Exported[e.symbol] + e.offset, by |-> "symbol", matches |-> 0]
     ELSE IF match = 0 THEN Unresolved(e)
     ELSE [entry |-> e, address |-> match + e.offset, by |-> "pattern",
           matches |-> countMatches(text, pattern, CountLimit)]

ResolveAbandoned ==   \* Fault: a target that is not found ends the loop
  /\ phase = "resolve" /\ at \in DOMAIN targets
  /\ LET resolved == Resolution(targets[at].entry) IN
       /\ targets' = [targets EXCEPT ![at] = resolved]
       /\ at' = IF resolved.by = "" THEN Len(targets) + 1 ELSE at + 1
  /\ UNCHANGED <<world, phase, file, hooks>>

Resolve ==
  /\ phase = "resolve" /\ at \in DOMAIN targets
  /\ targets' = [targets EXCEPT ![at] = Resolution(@.entry)]
  /\ at' = at + 1
  /\ UNCHANGED <<world, phase, file, hooks>>

Resolved ==
  /\ phase = "resolve" /\ at \notin DOMAIN targets
  /\ phase' = "identity"
  /\ UNCHANGED <<world, file, at, targets, hooks>>

-----------------------------------------------------------------------------
(* The first target of a name, 0 when there is none, and its address. *)
Target(name) == SelectInSeq(targets, LAMBDA t : t.entry.name = name)

Address(name) == IF Target(name) = 0 THEN 0 ELSE targets[Target(name)].address

Identify ==
  /\ phase = "identity"
  /\ identity' = IF Address("local_player_pointer") # 0 THEN "pointer"
                 ELSE IF Address("local_player_getter") # 0 THEN "getter" ELSE "none"
  /\ phase' = "cause"
  /\ UNCHANGED <<world, file, at, targets, causeAt, hurt, tick, refused>>

ReadCause ==
  /\ phase = "cause"
  /\ causeAt' = IF Target("damage_cause_offset") = 0 THEN -1
                ELSE targets[Target("damage_cause_offset")].entry.offset
  /\ phase' = "hurt"
  /\ UNCHANGED <<world, file, at, targets, identity, hurt, tick, refused>>

HookableBlindly(kind) == TRUE   \* Fault

HookableIdentified(kind) == identity # "none"   \* Fault: of any kind

(* A hook on every mob's damage is no use without a way to tell the player. *)
Hookable(kind) == kind = "mob_hurt" => identity # "none"

(* Every kind but the one, none at all included, is taken for the player's own. *)
Replacement(kind) == IF kind = "mob_hurt" THEN "mob_hurt" ELSE "local_player_hurt"

(* The kind the file has for the function that is hooked. *)
HurtKind == targets[Target("local_player_hurt")].entry.kind

(* install() may turn the hook down, for what lies at the address. *)
HookHurt ==
  /\ phase = "hurt"
  /\ IF Address("local_player_hurt") # 0 /\ Hookable(HurtKind)
     THEN \/ hurt' = Replacement(HurtKind) /\ UNCHANGED refused
          \/ refused' = refused \cup {"local_player_hurt"} /\ UNCHANGED hurt
     ELSE UNCHANGED <<hurt, refused>>
  /\ phase' = "tick"
  /\ UNCHANGED <<world, file, at, targets, identity, causeAt, tick>>

HookTick ==
  /\ phase = "tick"
  /\ IF Address("game_tick") # 0
     THEN \/ tick' = TRUE /\ UNCHANGED refused
          \/ refused' = refused \cup {"game_tick"} /\ UNCHANGED tick
     ELSE UNCHANGED <<tick, refused>>
  /\ phase' = "done"
  /\ UNCHANGED <<world, file, at, targets, identity, causeAt, hurt>>

Next ==
  \/ Load \/ Parse \/ Parsed \/ Resolve \/ Resolved
  \/ Identify \/ ReadCause \/ HookHurt \/ HookTick

Spec == Init /\ [][Next]_vars

-----------------------------------------------------------------------------
(* Type invariant; every target that was kept can be looked for. *)
TypeOK ==
  /\ phase \in {"load", "parse", "resolve", "identity", "cause", "hurt", "tick", "done"}
  /\ \A i \in DOMAIN targets :
       /\ targets[i].entry \in ToSet(file) /\ targets[i].address \in Int
       /\ targets[i].entry.symbol # "" \/ targets[i].entry.pattern # << >>
  /\ identity \in {"none", "pointer", "getter"} /\ causeAt \in Int
  /\ hurt \in {"none", "mob_hurt", "local_player_hurt"} /\ tick \in BOOLEAN
  /\ refused \subseteq {"local_player_hurt", "game_tick"}

(* game_hooks.cpp: without an identity "every mob's damage would look like
   yours, so the hook is not installed"; and what the file says sees every mob's
   damage never gets the hook that does not ask whose it is. *)
OnlyThePlayersDamage ==
  /\ hurt = "mob_hurt" => Address("local_player_pointer") # 0 \/ Address("local_player_getter") # 0
  /\ hurt # "none" /\ HurtKind = "mob_hurt" => hurt = "mob_hurt"

(* Where the file says a target is, and of what kind: at the first entry of the
   name that can be looked for. *)
Declaration(name) == SelectInSeq(file, LAMBDA e : e.name = name /\ Locatable(e))

Declared(name) ==
  IF Declaration(name) = 0 THEN 0 ELSE Resolution(file[Declaration(name)]).address

DeclaredKind(name) == file[Declaration(name)].kind

(* signatures.h: "Missing files and missing targets are not fatal: the features
   that need them stay off", and no others: a hook is in exactly when its own
   target is located and install() took it, whatever became of the rest; only a
   damage hook that sees every mob needs one of two more. *)
TargetsStandAlone ==
  phase = "done" =>
    /\ tick <=> Declared("game_tick") # 0 /\ "game_tick" \notin refused
    /\ hurt # "none" <=>
         /\ Declared("local_player_hurt") # 0 /\ "local_player_hurt" \notin refused
         /\ \/ DeclaredKind("local_player_hurt") # "mob_hurt"
            \/ Declared("local_player_pointer") # 0 \/ Declared("local_player_getter") # 0

Scanned == {i \in DOMAIN targets : targets[i].by = "pattern"}

(* sigscan.h: scan() "finds the `occurrence`-th (0 based) match", and null "when
   there is no such match": in whatever way its bytes and wildcards are spelt, a
   target whose symbol is gone is where its author means, overlapping matches
   counted, or nowhere; what is no pattern locates nothing; and a pattern with more
   matches is not taken for a unique one, which "silently points at the wrong
   function". *)
FindsTheOccurrence ==
  /\ \A i \in Scanned :
       LET t == targets[i]
           m == Matches(text, t.entry.means)
       IN /\ t.entry.means # << >>
          /\ t.address - t.entry.offset \in m
          /\ Cardinality({p \in m : p < t.address - t.entry.offset}) = t.entry.occurrence
          /\ t.matches = Min({CountLimit, Cardinality(m)})
  /\ phase = "done" =>
       \A i \in DOMAIN targets :
         LET e == targets[i].entry IN
         targets[i].by = "" /\ e.means # << >> =>
           e.occurrence < 0 \/ Cardinality(Matches(text, e.means)) <= e.occurrence
=============================================================================
