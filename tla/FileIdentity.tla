---------------------------- MODULE FileIdentity ----------------------------
(* Whether two output names would be one file, asked before either exists    *)
(* (landin_names_alias, destination and landin_same_file of                  *)
(* compiler/ada/src/platform/landin_file_identity.c). A volume may compare   *)
(* names by their bytes, fold case, treat Unicode forms as equal, drop a     *)
(* trailing dot or know short names; the code must not take two names for    *)
(* separate that the volume takes for one.                                   *)
EXTENDS Integers, Sequences

CONSTANT MaxLinks   \* bound: links followed before the answer is unknown (40)

ASSUME LinksAssumption == MaxLinks \in Nat \ {0}

(* Characters: two cases of one letter, another letter, two Unicode forms of *)
(* one character, and the two marks vfat gives a meaning.                    *)
Chars == {"A", "a", "b", "form1", "form2", "~", "."}
Spellings == UNION {[1 .. n -> Chars] : n \in 1 .. 2}

Fold(c) == IF c = "A" THEN "a" ELSE c
Folded(name) == [i \in DOMAIN name |-> Fold(name[i])]
Has(name, chars) == \E i \in DOMAIN name : name[i] \in chars
Ends(name, chars) == name[Len(name)] \in chars

(* The names no folding rules apart when the volume is unknown.              *)
Undecided(left, right) ==
  Ends(left, {"."}) \/ Ends(right, {"."}) \/ Has(left, {"~"}) \/ Has(right, {"~"})

(* landin_names_alias: "same", "separate" or "unknown", under the answer of  *)
(* name_rules, whose values 1, 2, 0 and -1 are named here.                   *)
names_alias(left, right, rules) ==
  CASE left = right -> "same"
    [] rules = "bytes" -> "separate"
    [] Has(left, {"form1", "form2"}) \/ Has(right, {"form1", "form2"}) -> "unknown"
    [] rules = "ascii" -> "separate"
    [] rules = "unknown" /\ Undecided(left, right) -> "unknown"
    [] Folded(left) # Folded(right) -> "separate"
    [] rules = "unknown" -> "unknown"
    [] OTHER -> "same"

(* The volumes behind each answer of name_rules, and the name a volume files *)
(* an entry under (external).                                                *)
Volumes == [case : BOOLEAN, unicode : BOOLEAN, dots : BOOLEAN, short : BOOLEAN]
VolumesOf(rules) ==
  CASE rules = "bytes" -> {v \in Volumes : ~v.case /\ ~v.unicode /\ ~v.dots /\ ~v.short}
    [] rules = "ascii" -> {v \in Volumes : ~v.case /\ ~v.dots /\ ~v.short}
    [] rules = "folding" -> {v \in Volumes : v.case /\ ~v.dots /\ ~v.short}
    [] OTHER -> Volumes
Rules == {"bytes", "ascii", "folding", "unknown"}

Undotted(v, name) ==
  IF v.dots /\ Len(name) > 1 /\ Ends(name, {"."}) THEN <<name[1]>> ELSE name
Filed(v, name) ==
  LET kept == Undotted(v, name) IN
  [i \in DOMAIN kept |->
     IF v.case /\ kept[i] = "A" THEN "a"
     ELSE IF v.unicode /\ kept[i] = "form2" THEN "form1" ELSE kept[i]]
OneEntry(v, left, right) ==
  \/ Filed(v, left) = Filed(v, right)
  \/ v.short /\ (Has(left, {"~"}) \/ Has(right, {"~"}))

-----------------------------------------------------------------------------
(* One directory of a byte-sensitive or a folding volume, holding at each    *)
(* filed name nothing, a file, or a link to a name.                          *)
Leaves == {<<"A">>, <<"a">>, <<"b">>}
Absent == <<>>
Inodes == {<<"inode", 1>>, <<"inode", 2>>}
Loop == <<"loop", 0>>
Directories(v) ==
  [{Filed(v, n) : n \in Leaves} -> {Absent} \cup Inodes \cup Leaves]

(* What a lookup that follows links ends at: an inode, the absent name it    *)
(* would create, or a loop (external).                                       *)
Opened(v, dir, name) ==
  LET walk[k \in 0 .. MaxLinks, n \in Leaves] ==
        LET entry == dir[Filed(v, n)] IN
        IF entry = Absent THEN Filed(v, n)
        ELSE IF entry \in Inodes THEN entry
        ELSE IF k = 0 THEN Loop ELSE walk[k - 1, entry]
  IN  walk[MaxLinks, name]

(* Mutant: a dangling link is taken for the name it stands under.            *)
Bug_destination(v, dir, name) ==
  IF Opened(v, dir, name) \in Inodes THEN Opened(v, dir, name) ELSE name

(* destination: an existing object by its identity; otherwise the last name  *)
(* of the links, spelled as the link spells it.                              *)
destination(v, dir, name) ==
  LET walk[k \in 0 .. MaxLinks, n \in Leaves] ==
        IF Opened(v, dir, n) \in Inodes \cup {Loop} THEN Opened(v, dir, n)
        ELSE IF dir[Filed(v, n)] = Absent THEN n
        ELSE IF k = 0 THEN Loop ELSE walk[k - 1, dir[Filed(v, n)]]
  IN  walk[MaxLinks, name]

(* landin_same_file. A lookup that fails is not proof of separation.         *)
same_file(v, dir, rules, left, right) ==
  LET a == destination(v, dir, left)
      b == destination(v, dir, right) IN
  CASE Loop \in {a, b} -> "unknown"
    [] {a, b} \cap Inodes # {} -> IF a = b THEN "same" ELSE "separate"
    [] OTHER -> names_alias(a, b, rules)

-----------------------------------------------------------------------------
(* Two names answered separate are two entries on every volume the rules     *)
(* leave possible, and two names answered same are one.                      *)
AliasSound ==
  \A rules \in Rules : \A v \in VolumesOf(rules) : \A left, right \in Spellings :
    LET said == names_alias(left, right, rules) IN
    /\ said = "separate" => ~OneEntry(v, left, right)
    /\ said = "same" => OneEntry(v, left, right)

(* Two outputs answered separate open two files, through links that dangle   *)
(* and names a volume folds.                                                 *)
OutputsSeparate ==
  \A rules \in {"bytes", "folding"} :
    \A v \in {w \in VolumesOf(rules) : ~w.unicode} :
      \A dir \in Directories(v) : \A left, right \in Leaves :
        same_file(v, dir, rules, left, right) = "separate" =>
          \/ Opened(v, dir, left) # Opened(v, dir, right)
          \/ Opened(v, dir, left) = Loop
=============================================================================
