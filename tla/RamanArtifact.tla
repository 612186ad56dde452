--------------------------- MODULE RamanArtifact ---------------------------
(***************************************************************************)
(* RAMAN artifacts as binaries (src/raman.rs): encode_raman_artifact_binary *)
(* writes the fields one after the other with a count before every list,   *)
(* parse_raman_artifact_binary reads them back in an order of its own and  *)
(* validates what it got.  A file has no length and no checksum, and its   *)
(* last section, the device program, may be missing.  Between the two, the *)
(* file may have been cut off anywhere (a write or a copy that stopped, a  *)
(* slot that is too short) or be followed by other bytes (a longer slot).  *)
(*                                                                         *)
(* A file is a sequence of words and strings; it is torn when its last     *)
(* bytes are a piece of the next one.  An operator named Bug... is a       *)
(* mutated form of the definition after it.                                *)
(***************************************************************************)
EXTENDS Integers, SequencesExt

CONSTANTS
    Encodables,    \* artifacts that are encoded
    Leftovers      \* what a longer slot held before

VARIABLES
    encoded,       \* the artifact the file was made of
    file,          \* [tokens, torn]
    loaded         \* what the loader made of it

raVars == <<encoded, file, loaded>>

NoProgram == [version |-> "", rules |-> <<>>]
NotRead == [ok |-> FALSE, at |-> 0, val |-> <<>>]
Refused == [NotRead EXCEPT !.at = 1]

-----------------------------------------------------------------------------
(* Writing: words one after the other, lists after their length.           *)

PairNames == <<"key", "value">>
PredicateNames == <<"field", "op", "value">>
DevicePredicateNames == <<"field_id", "op_id", "value_id">>
RuleNames == <<"priority", "order", "predicates", "action", "values">>
IrNames == <<"priority", "order", "kind", "exact_filters">>
\* One name stands for those of the metadata that no reader looks at.
FirstNames == <<"magic", "version", "source", "runtime", "compiled_rpl", "total_rules",
                "indexed_fields", "ir", "executable">>
DeviceNames == <<"version", "rules">>

Counted(items) == <<Len(items)>> \o FlattenSeq(items)
WriteRow(r, names) == FlattenSeq([n \in DOMAIN names |-> <<r[names[n]]>>])
WriteRows(rows, names) == Counted([n \in DOMAIN rows |-> WriteRow(rows[n], names)])

WriteRule(r, predicate) ==
    FlattenSeq(<< <<r.priority>>, <<r.order>>, WriteRows(r.predicates, predicate),
                  <<r.action>>, WriteRows(r.values, PairNames) >>)
WriteRules(rules, predicate) == Counted([n \in DOMAIN rules |-> WriteRule(rules[n], predicate)])
WriteIr(r) == FlattenSeq(<< <<r.priority>>, <<r.order>>, <<r.kind>>, WriteRows(r.exact_filters, PairNames) >>)

WriteFirst(a) ==
    FlattenSeq(<< <<a.magic>>, <<a.version>>, <<a.source>>, <<a.runtime>>, <<a.compiled_rpl>>,
                  <<a.total_rules>>, Counted([n \in DOMAIN a.indexed_fields |-> <<a.indexed_fields[n]>>]),
                  Counted([n \in DOMAIN a.ir |-> WriteIr(a.ir[n])]),
                  WriteRules(a.executable, PredicateNames) >>)
WriteDevice(abi) == FlattenSeq(<< <<abi.version>>, WriteRules(abi.rules, DevicePredicateNames) >>)

encode_raman_artifact_binary(a) == WriteFirst(a) \o WriteDevice(a.device_abi)

\* An artifact: its lists are lists, its records have their fields.
IsList(v) == Len(v) \in Nat /\ v = [n \in 1 .. Len(v) |-> v[n]]
IsRecord(r, names) == r = [x \in ToSet(names) |-> r[x]]
IsRows(v, names) == IsList(v) /\ \A n \in DOMAIN v : IsRecord(v[n], names)
IsRules(v, predicate) ==
    /\ IsRows(v, RuleNames)
    /\ \A n \in DOMAIN v : IsRows(v[n].predicates, predicate) /\ IsRows(v[n].values, PairNames)
IsArtifact(a) ==
    /\ IsRecord(a, Append(FirstNames, "device_abi"))
    /\ a.magic = "magic" /\ IsList(a.indexed_fields)
    /\ IsRows(a.ir, IrNames) /\ \A n \in DOMAIN a.ir : IsRows(a.ir[n].exact_filters, PairNames)
    /\ IsRules(a.executable, PredicateNames)
    /\ IsRecord(a.device_abi, DeviceNames) /\ IsRules(a.device_abi.rules, DevicePredicateNames)

ASSUME EncodablesAssumption == Encodables # {} /\ \A a \in Encodables : IsArtifact(a)
ASSUME LeftoversAssumption == \A rest \in Leftovers : IsList(rest)

-----------------------------------------------------------------------------
(* Reading: what is read from each place of a file on.  A read runs into   *)
(* the end of the file, and everything after it with it.                   *)

Got(at, v) == [ok |-> TRUE, at |-> at, val |-> v]

Places(f) == 1 .. Len(f) + 1

WordAt(f) == [at \in Places(f) |-> IF at <= Len(f) THEN Got(at + 1, f[at]) ELSE Refused]

InTurn(readers, at) ==
    LET got[n \in 0 .. Len(readers)] ==
            IF n = 0 THEN Got(at, <<>>)
            ELSE LET before == got[n - 1]
                     item == readers[n][before.at]
                 IN  IF before.ok /\ item.ok THEN Got(item.at, Append(before.val, item.val)) ELSE Refused
    IN  got[Len(readers)]

ListAt(f, item) ==
    [at \in Places(f) |->
        IF at <= Len(f) THEN InTurn([n \in 1 .. f[at] |-> item], at + 1) ELSE Refused]

FieldsAt(f, names, readers) ==
    [at \in Places(f) |->
        LET got == InTurn(readers, at)
        IN  IF got.ok
            THEN Got(got.at, [x \in ToSet(names) |->
                         got.val[CHOOSE n \in DOMAIN names : names[n] = x]])
            ELSE Refused]

RowAt(f, names) == FieldsAt(f, names, [n \in DOMAIN names |-> WordAt(f)])
RuleAt(f, predicate) ==
    FieldsAt(f, RuleNames, <<WordAt(f), WordAt(f), ListAt(f, RowAt(f, predicate)),
                             WordAt(f), ListAt(f, RowAt(f, PairNames))>>)
IrAt(f) ==
    FieldsAt(f, IrNames, <<WordAt(f), WordAt(f), WordAt(f), ListAt(f, RowAt(f, PairNames))>>)
FirstAt(f) ==
    FieldsAt(f, FirstNames,
             <<WordAt(f), WordAt(f), WordAt(f), WordAt(f), WordAt(f), WordAt(f),
               ListAt(f, WordAt(f)), ListAt(f, IrAt(f)), ListAt(f, RuleAt(f, PredicateNames))>>)
DeviceAt(f) ==
    FieldsAt(f, DeviceNames, <<WordAt(f), ListAt(f, RuleAt(f, DevicePredicateNames))>>)

(* Counts are compared among the sections; a device program has to have    *)
(* its version only when it has rules.                                     *)
validate_raman_artifact(a) ==
    /\ a.version = "raman-artifact/v1" /\ a.runtime = "RamanExecutor v1"
    /\ a.compiled_rpl # ""
    /\ a.total_rules # 0 /\ a.total_rules = Len(a.ir)
    /\ a.indexed_fields # <<>>
    /\ a.executable # <<>> => Len(a.executable) = a.total_rules
    /\ a.device_abi.rules # <<>> =>
           a.device_abi.version = "raman-device-abi/v1" /\ Len(a.device_abi.rules) = a.total_rules

(* The device program is there when there is a byte left for it.           *)
BugDevice(f, at) ==
    IF at <= Len(f.tokens) \/ f.torn
    THEN LET abi == DeviceAt(f.tokens)[at] IN IF abi.ok THEN abi ELSE Got(at, NoProgram)
    ELSE Got(at, NoProgram)

DeviceSection(f, at) ==
    IF at <= Len(f.tokens) \/ f.torn THEN DeviceAt(f.tokens)[at] ELSE Got(at, NoProgram)

parse_raman_artifact_binary(f) ==
    LET first == FirstAt(f.tokens)[1]
        abi == DeviceSection(f, first.at)
    IN  IF ~first.ok \/ ~abi.ok THEN Refused
        ELSE LET a == [x \in DOMAIN first.val \cup {"device_abi"} |->
                           IF x = "device_abi" THEN abi.val ELSE first.val[x]]
             IN  IF a.magic = "magic" /\ validate_raman_artifact(a) THEN Got(abi.at, a) ELSE Refused

-----------------------------------------------------------------------------

RAInit ==
    /\ encoded = CHOOSE a \in Encodables : TRUE
    /\ file = [tokens |-> <<>>, torn |-> FALSE]
    /\ loaded = NotRead

(* A file arrives whole, cut off, or in front of other bytes.              *)
Store(a, f) ==
    /\ file.tokens = <<>> /\ loaded = NotRead
    /\ encoded' = a /\ file' = f
    /\ UNCHANGED loaded

ArriveBinary(a) ==
    LET whole == encode_raman_artifact_binary(a) IN
    \/ \E n \in 0 .. Len(whole), torn \in BOOLEAN :
           /\ torn => n < Len(whole)
           /\ Store(a, [tokens |-> SubSeq(whole, 1, n), torn |-> torn])
    \/ \E rest \in Leftovers : Store(a, [tokens |-> whole \o rest, torn |-> TRUE])

load_raman_artifact_binary ==
    /\ loaded = NotRead
    /\ loaded' = parse_raman_artifact_binary(file)
    /\ UNCHANGED <<encoded, file>>

RANext == (\E a \in Encodables : ArriveBinary(a)) \/ load_raman_artifact_binary

RASpec == RAInit /\ [][RANext]_raVars

-----------------------------------------------------------------------------

(* Whatever became of the file on its way, what loads is the artifact that *)
(* was encoded: a file cut off anywhere is refused, but for one that ends  *)
(* exactly where the device program would begin, which loads without it;   *)
(* bytes behind the artifact do no harm; and no rule list is shortened.  A *)
(* sound artifact that arrived whole is not refused.                       *)
ArtifactIsWhole ==
    LET whole == encode_raman_artifact_binary(encoded)
        device == WriteDevice(encoded.device_abi)
    IN  /\ loaded.ok /\ loaded.val # encoded =>
               /\ loaded.val = [encoded EXCEPT !.device_abi = NoProgram]
               /\ ~file.torn /\ file.tokens \o device = whole
        /\ loaded = Refused =>
               ~validate_raman_artifact(encoded) \/ Len(file.tokens) < Len(whole)
=============================================================================
