--------------------------- MODULE EcuConfigLoad ---------------------------
(***************************************************************************)
(* Loading a configuration (core/ecu_config_load.c and core/ecu_json.c,    *)
(* wrapped one to one by cpp/jetecu/Config.cpp): the defaults are set, the *)
(* text is parsed token by token into a table of entries, and only a text  *)
(* that is accepted as a whole is applied.  White space is left out.       *)
(***************************************************************************)
EXTENDS Integers, Sequences, FiniteSets

CONSTANTS
  Params,      \* the keys apply_json looks for
  Durations,   \* those of them converted to uint32_t
  Defaults,    \* ecu_config_defaults
  Numbers,     \* values that occur in texts
  MaxDuration, \* the largest value a duration can hold
  MaxKeys      \* JSON_MAX_KEYS

ASSUME ConfigAssumption ==
  /\ Durations \subseteq Params /\ Numbers \subseteq Int
  /\ Defaults \in [Params -> Int]
  /\ MaxDuration \in Nat /\ MaxKeys \in Nat
  /\ \A k \in Durations : Defaults[k] \in 0 .. MaxDuration

VARIABLES
  cfg,         \* ecu_config_t
  stage,       \* what json_parse expects next, or how the last load ended
  key,         \* the key whose value is awaited
  obj,         \* the entries parsed so far
  read         \* history: the tokens the parser has looked at

configVars == <<cfg, stage, key, obj, read>>

Unknown == "unknown"      \* any key the configuration does not have

(* Tokens; "other" is any text that is none of them.                       *)
Mark(c) == [kind |-> c, name |-> Unknown, num |-> 0]
Marks == {Mark(c) : c \in {"{", "}", ":", ",", "other", "end"}}
NamedKey(k) == [kind |-> "name", name |-> k, num |-> 0]
Names == {NamedKey(k) : k \in Params \cup {Unknown}}
Nums == {[kind |-> "num", name |-> Unknown, num |-> n] : n \in Numbers}

ConfigInit ==
  /\ cfg = Defaults /\ stage = "idle" /\ key = Unknown
  /\ obj = <<>> /\ read = <<>>

Idle == stage \in {"idle", "ok", "failed"}

-----------------------------------------------------------------------------
(* The configuration a load starts from.                                   *)
Start == Defaults

(* ecu_config_load_str, or ecu_config_load_file once the file is read.     *)
LoadStr ==
  /\ Idle
  /\ cfg' = Start /\ stage' = "start"
  /\ key' = Unknown /\ obj' = <<>> /\ read' = <<>>

(* The file cannot be opened, or there is no memory for it.                *)
LoadFileFails ==
  /\ Idle
  /\ cfg' = Start /\ stage' = "failed"
  /\ key' = Unknown /\ obj' = <<>> /\ read' = <<>>

FoundFaulty(k) ==
  LET at == {i \in DOMAIN obj : obj[i].name = k}
  IN CHOOSE i \in at : \A j \in at : j <= i

(* json_get: the first entry of that name.  FoundFaulty takes the last; no *)
(* specification uses it.                                                  *)
Found(k) ==
  LET at == {i \in DOMAIN obj : obj[i].name = k}
  IN CHOOSE i \in at : \A j \in at : i <= j

(* The conversion to uint32_t of a number out of range is undefined: it    *)
(* may yield any value.                                                    *)
Converted(k, n) ==
  IF k \in Durations /\ n \notin 0 .. MaxDuration THEN 0 .. MaxDuration ELSE {n}

(* apply_json: a key the text does not have keeps the value it had.        *)
Apply ==
  /\ stage' = "ok"
  /\ LET named == {k \in Params : \E i \in DOMAIN obj : obj[i].name = k}
         new(k) == IF k \in named THEN Converted(k, obj[Found(k)].num)
                   ELSE {cfg[k]}
     IN \E v \in [Params -> UNION {new(k) : k \in Params}] :
          /\ \A k \in Params : v[k] \in new(k)
          /\ cfg' = v

Fail == stage' = "failed" /\ UNCHANGED cfg
GoOn(next) == stage' = next /\ UNCHANGED cfg

AddEntry(n) == obj' = Append(obj, [name |-> key, num |-> n])

(* Whether the table takes another entry.                                  *)
Room == Len(obj) < MaxKeys

(* The head of the loop of json_parse.                                     *)
Body(t) ==
  /\ IF t.kind = "}" THEN Apply
     ELSE IF t.kind = "name" /\ Room THEN GoOn("colon")
     ELSE Fail
  /\ key' = IF t.kind = "name" THEN t.name ELSE key
  /\ UNCHANGED obj

(* One token of json_parse.  After a value a comma is skipped if there is  *)
(* one; without it the loop goes on with the same token.                   *)
Parse(t) ==
  /\ ~Idle
  /\ read' = Append(read, t)
  /\ \/ /\ stage = "start"
        /\ IF t.kind = "{" THEN GoOn("body") ELSE Fail
        /\ UNCHANGED <<key, obj>>
     \/ stage = "body" /\ Body(t)
     \/ /\ stage = "colon"
        /\ IF t.kind = ":" THEN GoOn("value") ELSE Fail
        /\ UNCHANGED <<key, obj>>
     \/ /\ stage = "value" /\ t.kind = "num"
        /\ AddEntry(t.num) /\ GoOn("comma") /\ UNCHANGED key
     \/ /\ stage = "value" /\ t.kind # "num"
        /\ Fail /\ UNCHANGED <<key, obj>>
     \/ /\ stage = "comma" /\ t.kind = ","
        /\ GoOn("body") /\ UNCHANGED <<key, obj>>
     \/ stage = "comma" /\ t.kind # "," /\ Body(t)

ConfigNext ==
  \/ LoadStr
  \/ LoadFileFails
  \/ \E t \in Marks \cup Names \cup Nums : Parse(t)

ConfigSpec == ConfigInit /\ [][ConfigNext]_configVars

-----------------------------------------------------------------------------
(* Properties.                                                             *)

(* The types of the variables; the table of entries never overflows.       *)
ConfigTypeOK ==
  /\ cfg \in [Params -> Int]
  /\ \A k \in Durations : cfg[k] \in 0 .. MaxDuration
  /\ stage \in {"idle", "ok", "failed"}
              \cup {"start", "body", "colon", "value", "comma"}
  /\ key \in Params \cup {Unknown}
  /\ obj \in Seq([name : Params \cup {Unknown}, num : Numbers])
  /\ Len(obj) <= MaxKeys

(* What may stand next to each other in a flat object: commas are optional *)
(* between entries, and one may follow the last.                           *)
Follows ==
  { <<"{", "name">>, <<"{", "}">>, <<"name", ":">>, <<":", "num">>,
    <<"num", ",">>, <<"num", "name">>, <<"num", "}">>,
    <<",", "name">>, <<",", "}">> }

NamesIn(s) == {i \in DOMAIN s : s[i].kind = "name"}

(* s begins a flat object of at most MaxKeys entries; it is one.           *)
Opens(s) ==
  /\ s # <<>> /\ s[1].kind = "{"
  /\ \A i \in 2 .. Len(s) : <<s[i - 1].kind, s[i].kind>> \in Follows
  /\ Cardinality(NamesIn(s)) <= MaxKeys

Accepted(s) == Opens(s) /\ s[Len(s)].kind = "}"

(* The number the text s gives the key k: the one after its first mention. *)
GivenBy(s, k) ==
  LET at == {i \in NamesIn(s) : s[i].name = k}
  IN s[(CHOOSE i \in at : \A j \in at : i <= j) + 2].num

(* A load succeeds for the flat objects of at most MaxKeys numbers and for *)
(* nothing else, and leaves every parameter at the first number the text   *)
(* gives it, or at its default: repeated and unknown keys, missing and     *)
(* trailing commas change nothing, and nothing is left of earlier loads.   *)
(* A load that fails leaves the defaults, whatever it had parsed and       *)
(* whatever was loaded before, and fails at the first token that no        *)
(* acceptable text has there (or before the first).                        *)
LoadedExact ==
  /\ stage = "ok" =>
       /\ Accepted(read)
       /\ \A k \in Params :
            cfg[k] \in IF \E i \in NamesIn(read) : read[i].name = k
                      THEN Converted(k, GivenBy(read, k)) ELSE {Defaults[k]}
  /\ stage = "failed" =>
       /\ cfg = Defaults
       /\ ~Opens(read)
       /\ Len(read) > 1 => Opens(SubSeq(read, 1, Len(read) - 1))
=============================================================================
