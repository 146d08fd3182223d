----------------------------- MODULE SchemaChanges -----------------------------
(***************************************************************************)
(* changesets/apply_schema.py and schema/: what the schema changes of a    *)
(* changeset are made into, and what the preflight says of them.  Both are *)
(* computed from the baseline's schema alone; nothing reads the shadow's.  *)
(*                                                                         *)
(* A schema is a record: fields is the list of fields, types maps a field  *)
(* type to its analyzers and each of these to its filters, dynamic maps a  *)
(* pattern to its type, copies is the list of copyField rules.             *)
(***************************************************************************)
EXTENDS Sublists

SchemaOps == {"schema.field.update", "schema.fieldType.replace", "schema.analyzer.remove_filter"}

FieldNamed(schema, name) == Within(schema.fields, {f \in ToSet(schema.fields) : f.name = name})
FieldsOfType(schema, type) == Within(schema.fields, {f \in ToSet(schema.fields) : f.type = type})

-----------------------------------------------------------------------------
(* apply_schema.py.  What is written to Solr is a whole field or a whole   *)
(* field type.                                                             *)
FieldPayload(field) == [kind |-> "field", name |-> field.name, body |-> field]

UpdatedField(schema, change) ==
  LET field == FieldNamed(schema, change.field)[1]
  IN  [key \in {"name"} \cup DOMAIN change.set \cup DOMAIN field |->
         IF key = "name" THEN change.field
         ELSE IF key \in DOMAIN change.set THEN change.set[key] ELSE field[key]]

RetypedFields(schema, change) ==
  LET found == FieldsOfType(schema, change.name)
  IN  [i \in DOMAIN found |-> FieldPayload([found[i] EXCEPT !.type = change.with])]

(* The analyzer of its own side is taken before the one of both sides.     *)
OwnAnalyzer == [index |-> "indexAnalyzer", query |-> "queryAnalyzer"]

AnalyzerKeys(schema, change) ==
  IF change.analyzer \notin DOMAIN OwnAnalyzer THEN <<>>
  ELSE SelectSeq(<<OwnAnalyzer[change.analyzer], "analyzer">>,
                 LAMBDA key : key \in DOMAIN schema.types[change.fieldType])

WithoutFilter(schema, change) ==
  [schema.types[change.fieldType] EXCEPT ![AnalyzerKeys(schema, change)[1]] = @ \ {change.filter_class}]

(* What the baseline does not have raises a ValidationError, a filter that *)
(* is not there is passed over.                                            *)
NamesUnknown(schema, change) ==
  \/ change.op = "schema.field.update" /\ FieldNamed(schema, change.field) = <<>>
  \/ /\ change.op = "schema.analyzer.remove_filter"
     /\ \/ change.fieldType \notin DOMAIN schema.types
        \/ AnalyzerKeys(schema, change) = <<>>

NothingToRemove(schema, change) ==
  /\ change.op = "schema.analyzer.remove_filter"
  /\ change.filter_class \notin schema.types[change.fieldType][AnalyzerKeys(schema, change)[1]]

Payloads(schema, change) ==
  CASE change.op = "schema.field.update" -> <<FieldPayload(UpdatedField(schema, change))>>
    [] change.op = "schema.fieldType.replace" -> RetypedFields(schema, change)
    [] change.op = "schema.analyzer.remove_filter" ->
         <<[kind |-> "type", name |-> change.fieldType, body |-> WithoutFilter(schema, change)]>>

(* Solr's replace-field and replace-field-type, of what is there only.     *)
Replaceable(schema, payload) ==
  IF payload.kind = "type"
  THEN payload.name \in DOMAIN schema.types
  ELSE FieldNamed(schema, payload.name) # <<>>

Replaced(schema, payload) ==
  IF payload.kind = "type"
  THEN [schema EXCEPT !.types[payload.name] = payload.body]
  ELSE [schema EXCEPT !.fields =
          [i \in DOMAIN @ |-> IF @[i].name = payload.name THEN payload.body ELSE @[i]]]

-----------------------------------------------------------------------------
(* schema/graph.py: the type of an end of a copyField rule; a pattern is   *)
(* found as such only, and a name that only matches one is not found.      *)
EndpointTypes(schema, endpoint) ==
  LET concrete == FieldNamed(schema, endpoint)
  IN  IF concrete # <<>> THEN {concrete[1].type}
      ELSE IF endpoint \in DOMAIN schema.dynamic THEN {schema.dynamic[endpoint]} ELSE {}

PatternsOfType(schema, type) == {p \in DOMAIN schema.dynamic : schema.dynamic[p] = type}

(* schema/preflight.py: the types and fields that a change touches.        *)
(* Mutant: the type that a field had is not looked at.                     *)
TouchedNewTypes(schema, change) ==
  CASE change.op = "schema.fieldType.replace" -> {change.name, change.with}
    [] change.op = "schema.analyzer.remove_filter" -> {change.fieldType}
    [] change.op = "schema.field.update" ->
         IF "type" \in DOMAIN change.set THEN {change.set.type} ELSE {}
    [] OTHER -> {}

TouchedTypes(schema, change) ==
  CASE change.op = "schema.fieldType.replace" -> {change.name, change.with}
    [] change.op = "schema.analyzer.remove_filter" -> {change.fieldType}
    [] change.op = "schema.field.update" ->
         LET old == {FieldNamed(schema, change.field)[i].type : i \in DOMAIN FieldNamed(schema, change.field)}
         IN  IF "type" \in DOMAIN change.set /\ change.set.type \notin old
             THEN old \cup {change.set.type} ELSE {}
    [] OTHER -> {}

TouchedFields(change) == IF change.op = "schema.field.update" THEN {change.field} ELSE {}

RiskyCopies(schema, change) ==
  {rule \in ToSet(schema.copies) :
     \/ (EndpointTypes(schema, rule.source) \cup EndpointTypes(schema, rule.dest))
          \cap TouchedTypes(schema, change) # {}
     \/ {rule.source, rule.dest} \cap TouchedFields(change) # {}}

HazardousCopies(schema, change) ==
  {rule \in ToSet(schema.copies) :
     /\ change.op = "schema.fieldType.replace"
     /\ FieldNamed(schema, rule.dest) # <<>>
     /\ EndpointTypes(schema, rule.dest) \cap TouchedTypes(schema, change) # {}}

Finding(code, severity, fields, copies) ==
  [code |-> code, severity |-> severity, fields |-> fields, copies |-> copies]

Findings(schema, change) ==
  LET names(type) == {f.name : f \in ToSet(FieldsOfType(schema, type))}
      copyFinding(code, severity, copies) ==
        IF copies = {} THEN {} ELSE {Finding(code, severity, TouchedFields(change), copies)}
  IN  {Finding("FIELDTYPE_IMPACT", "LOW", names(type), {}) :
         type \in {t \in TouchedTypes(schema, change) :
                     names(t) # {} \/ PatternsOfType(schema, t) # {}}}
      \cup copyFinding("COPYFIELD_COMPAT_RISK", "MEDIUM", RiskyCopies(schema, change))
      \cup copyFinding("REPLACE_FIELDTYPE_COPYFIELD_DEST_HAZARD", "HIGH", HazardousCopies(schema, change))

Preflight(schema, changes) == UNION {Findings(schema, change) : change \in ToSet(changes)}
HighRisk(report) == \E f \in report : f.severity = "HIGH"
=============================================================================
