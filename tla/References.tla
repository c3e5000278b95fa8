----------------------------- MODULE References -----------------------------
(***************************************************************************)
(* The functions that resolve the `ref:` expressions of a configuration    *)
(* (internal/functions/resolve.go, resolve_map.go), in a context that      *)
(* merge_with_outputs.go makes of the configuration and of the outputs of  *)
(* modules.  Terraform calls them when it plans, with values that are not  *)
(* known yet, and again when it applies.                                   *)
(*                                                                         *)
(* A value is an object or a map, a list or a tuple, a text, a text with   *)
(* references, or has no content: unknown or null, of a type such as       *)
(* string or object, or of no type that is known.                          *)
(***************************************************************************)
EXTENDS Sequences, Integers, TLC

LOCAL INSTANCE SequencesExt

Object(fields) == <<"object", fields>>

List(elements) == <<"list", elements>>

(* A text, as the sequence of its parts. *)
Text(parts) == <<"text", parts>>

(* "ref:path" or "ref:path|default" *)
Ref(path, default) == <<"ref", path, default>>

NoDefault == <<>>

(* A text with interpolations "${ref:...}", and one that does not end.      *)
Mixed(pieces) == <<"mixed", pieces>>

Open == <<"open">>

Unknown(type) == <<"unknown", type>>

Null(type) == <<"null", type>>

IsUnknown(v) == v[1] = "unknown"

IsNull(v) == v[1] = "null"

Failed == <<"failed">>
-----------------------------------------------------------------------------
(* Mutant of walkDynamic: what is unknown has no keys. *)
RECURSIVE walkDynamicKnown(_, _)
walkDynamicKnown(value, path) ==
  IF path = <<>> THEN value
  ELSE IF value[1] = "object" /\ Head(path) \in DOMAIN value[2]
    THEN walkDynamicKnown(value[2][Head(path)], Tail(path))
  ELSE Failed

(* The value at the path; an unknown value on the way is the result.        *)
RECURSIVE walkDynamic(_, _)
walkDynamic(value, path) ==
  IF path = <<>> \/ IsUnknown(value) THEN value
  ELSE IF value[1] = "object" /\ Head(path) \in DOMAIN value[2]
    THEN walkDynamic(value[2][Head(path)], Tail(path))
  ELSE Failed

resolveSingleRef(context, ref) ==
  LET found == walkDynamic(context, ref[2])
  IN  IF found # Failed THEN found
      ELSE IF ref[3] # NoDefault THEN Text(ref[3])
      ELSE Failed

(* The texts of the references in their places.  A string without content,  *)
(* unknown or null, gives the empty text; what is no string is an error.    *)
resolveInterpolatedRef(context, pieces) ==
  LET Part(piece) ==
        LET v == resolveSingleRef(context, piece)
        IN  IF piece[1] = "text" THEN piece
            ELSE IF piece = Open THEN Failed
            ELSE IF v \in {Unknown("string"), Null("string")} THEN Text(<<>>)
            ELSE IF v[1] = "text" THEN v
            ELSE Failed
      parts == [i \in DOMAIN pieces |-> Part(pieces[i])]
  IN  IF \E i \in DOMAIN parts : parts[i] = Failed THEN Failed
      ELSE Text(FlattenSeq([i \in DOMAIN parts |-> parts[i][2]]))

RECURSIVE resolveValue(_, _)
resolveValue(context, value) ==
  CASE value[1] = "ref" -> resolveSingleRef(context, value)
    [] value[1] = "mixed" -> resolveInterpolatedRef(context, value[2])
    [] value[1] \in {"object", "list"} ->
         LET inner == [k \in DOMAIN value[2] |-> resolveValue(context, value[2][k])]
         IN  IF \E k \in DOMAIN inner : inner[k] = Failed THEN Failed ELSE <<value[1], inner>>
    [] OTHER -> value

(* What an argument of any type holds: the value nil, which is neither      *)
(* unknown nor has a type, when it is unknown or null as a whole and of no  *)
(* type.  What is unknown within a value stays unknown.                     *)
Nil == <<"nil">>

UnderlyingValue(argument) == IF argument \in {Unknown("any"), Null("any")} THEN Nil ELSE argument

(* ResolveFunction.Run and ResolveMapFunction.Run: in nil nothing is found, *)
(* and of nil resources there are none.                                     *)
resolve(context, ref) ==
  IF ref[2] = <<"">> THEN Failed ELSE resolveSingleRef(UnderlyingValue(context), ref)

resolve_map(context, resources) ==
  LET underlying == UnderlyingValue(resources)
  IN  IF underlying = Nil \/ IsNull(underlying) THEN Object(<<>>)
      ELSE resolveValue(UnderlyingValue(context), underlying)

(* extractEntries and extractAttrs *)
Fields(value) == IF value[1] = "object" THEN value[2] ELSE <<>>

(* By key of the configuration its attributes, and over them the outputs.   *)
merge_with_outputs(config, outputs) ==
  LET entries == Fields(config)
      outs == Fields(outputs)
      Merged(k) ==
        IF k \in DOMAIN outs THEN Fields(outs[k]) @@ Fields(entries[k]) ELSE Fields(entries[k])
  IN  Object([k \in DOMAIN entries |-> Object(Merged(k))])
-----------------------------------------------------------------------------
(* What the plan says is what the apply says, but for what the plan does    *)
(* not know.                                                                *)
RECURSIVE Foretells(_, _)
Foretells(planned, applied) ==
  \/ IsUnknown(planned)
  \/ planned = applied
  \/ /\ planned[1] = applied[1] /\ planned[1] \in {"object", "list"}
     /\ DOMAIN planned[2] = DOMAIN applied[2]
     /\ \A k \in DOMAIN planned[2] : Foretells(planned[2][k], applied[2][k])
=============================================================================
