---------------------------- MODULE Serialization ----------------------------
(***************************************************************************)
(* What happens to a value on its way through a remote call:               *)
(* runtime/serialization.py on the client and the messages of              *)
(* shared/protocol.py that carry it both ways (CloudSession._async_execute *)
(* and _receive_loop of runtime/interceptor.py).                           *)
(*                                                                         *)
(* The server has no handler for exec.call yet; the model's peer answers a *)
(* call with the arguments as they reached it, which is what the "echo"    *)
(* handler of server/ws/rpc.py does with the parameters.                   *)
(***************************************************************************)
EXTENDS Protocol, SequencesExt, TLC

CONSTANTS Values,  \* argument values
          Posts    \* messages that are sent without a call

VARIABLES
  stage,   \* how far the value or the message has come
  given,  \* the argument, or the message that is posted
  msg,    \* the message under way, as its receiver last read it
  wire,   \* the JSON text under way
  got     \* what the caller receives

wireVars == <<stage, given, msg, wire, got>>

Tagged(tag, fields) == Dict(("__type__" :> Str(tag)) @@ fields)

\* base64 of a value's bytes, and back.
Base64(v) == Str(v.t)
Unbase64(s) == Other(s.s)

\* A mutation: a dict is not wrapped, as serialize_args does not wrap one.
SerializeDictPlain(items) == Dict(items)

\* A nested dict is wrapped, so that its own keys are never taken for a tag.
SerializeDict(items) == Tagged("dict", "items" :> Dict(items))

\* An array of numbers and one of objects differ in the dtype that is sent.
Arrays == [ndarray |-> Str("f8"), objects |-> Str("object")]

\* serialize_value.  A lambda's type belongs to builtins, which is on the list
\* of what may be pickled, but it cannot be; what is on no list, a tensor
\* among it, is sent as its repr.
RECURSIVE SerializeValue(_)
SerializeValue(v) ==
  LET all(vs, tag) == LET xs == [i \in DOMAIN vs |-> SerializeValue(vs[i])]
                      IN  Built(xs, Tagged(tag, "values" :> List(xs)))
  IN
  CASE Scalar(v) -> v
    [] v.t \in {"list", "tuple"} -> all(v.vs, "list")
    [] v.t = "dict" ->
         LET items == [k \in DOMAIN v.items |-> SerializeValue(v.items[k])]
         IN  Built(items, SerializeDict(items))
    [] v.t = "bytes" -> Tagged("bytes", "data" :> Base64(v))
    [] v.t = "complex" -> Tagged("complex", ("real" :> Num(1)) @@ ("imag" :> Num(2)))
    [] v.t = "set" -> all(SetToSeq(v.elems), "set")
    [] v.t \in DOMAIN Arrays ->
         Tagged("ndarray", ("dtype" :> Arrays[v.t]) @@ ("shape" :> List(<<Num(2)>>))
                             @@ ("data" :> Base64(v)))
    [] v.t = "datetime" -> Tagged("pickle", ("data" :> Base64(v)) @@ ("class" :> Str("datetime")))
    [] v.t = "lambda" -> Raise
    [] OTHER -> Tagged("repr", ("value" :> Str("repr")) @@ ("class" :> Str(v.t)))

\* serialize_args, of the positional arguments or of the keyword arguments:
\* the outermost list or dict is left as it is.
SerializeArgs(args) ==
  IF args.t = "dict"
  THEN LET items == [k \in DOMAIN args.items |-> SerializeValue(args.items[k])]
       IN  Built(items, Dict(items))
  ELSE LET vs == [i \in DOMAIN args.vs |-> SerializeValue(args.vs[i])] IN Built(vs, List(vs))

RECURSIVE DeserializeResult(_)

\* _deserialize_typed.  A set is built from what its members deserialize to:
\* a list among them cannot be hashed.  numpy does not read objects from bytes.
DeserializeTyped(tag, data) ==
  LET values == [i \in DOMAIN Get(data, "values").vs |-> DeserializeResult(data["values"].vs[i])]
      items == [k \in DOMAIN Get(data, "items").items |-> DeserializeResult(data["items"].items[k])]
  IN
  CASE tag = Str("list") ->
         IF "values" \in DOMAIN data THEN Built(values, List(values)) ELSE List(<< >>)
    [] tag = Str("dict") ->
         IF "items" \in DOMAIN data THEN Built(items, Dict(items)) ELSE Empty
    [] tag = Str("bytes") -> IF "data" \in DOMAIN data THEN Unbase64(data["data"]) ELSE Raise
    [] tag = Str("complex") -> IF {"real", "imag"} \subseteq DOMAIN data THEN Other("complex") ELSE Raise
    [] tag = Str("set") ->
         IF "values" \notin DOMAIN data THEN SetOf({})
         ELSE IF \E x \in Range(values) : x.t \in {"list", "dict", "set"} THEN Raise
         ELSE Built(values, SetOf(Range(values)))
    [] tag \in {Str("ndarray"), Str("tensor")} ->
         IF /\ {"data", "shape"} \subseteq DOMAIN data
            /\ tag = Str("tensor") \/ Get(data, "dtype") = Arrays.ndarray
         THEN Unbase64(data["data"]) ELSE Raise
    [] tag = Str("pickle") ->
         IF Get(data, "class") # Str("datetime") THEN Dict(data) ELSE Unbase64(data["data"])
    [] tag = Str("repr") -> IF "value" \in DOMAIN data THEN data["value"] ELSE Str("")
    [] OTHER -> Dict(data)

DeserializeResult(v) ==
  CASE v.t = "list" ->
         LET vs == [i \in DOMAIN v.vs |-> DeserializeResult(v.vs[i])] IN Built(vs, List(vs))
    [] v.t = "dict" ->
         IF Truthy(Get(v.items, "__type__")) THEN DeserializeTyped(v.items["__type__"], v.items)
         ELSE LET items == [k \in DOMAIN v.items |-> DeserializeResult(v.items[k])]
              IN  Built(items, Dict(items))
    [] OTHER -> v

-----------------------------------------------------------------------------

WireInit ==
  /\ \/ stage = "call" /\ given \in Values
     \/ stage = "post" /\ given \in Posts
  /\ msg = None /\ wire = None /\ got = None

\* _async_execute: the arguments are serialized, the call is sent, unless
\* one of the two raises.
SendCall(args, kwargs) ==
  LET params == [args |-> SerializeArgs(args), kwargs |-> SerializeArgs(kwargs)]
      text == Built(params, ToJson(MakeCall("exec.call",
                Dict([session_id |-> Str("s"), method |-> Str("m")] @@ params))))
  IN
  /\ stage = "call"
  /\ \/ text = Raise /\ stage' = "done" /\ got' = Raise /\ wire' = wire
     \/ text # Raise /\ stage' = "called" /\ got' = got /\ wire' = text
  /\ UNCHANGED <<given, msg>>

\* A call with one positional argument, and one with one keyword argument.
Call ==
  \/ SendCall(Tuple(<<given>>), Empty)
  \/ SendCall(Tuple(<< >>), Dict([k |-> given]))

\* The peer reads the call and answers with the argument it was given.
Answer ==
  /\ stage = "called"
  /\ msg' = FromJson(wire)
  /\ LET params == msg'.params.items
         value == IF Truthy(params["args"]) THEN params["args"].vs[1] ELSE params["kwargs"].items["k"]
     IN  wire' = ToJson(MakeResult(msg'.id, value))
  /\ stage' = "answered"
  /\ UNCHANGED <<given, got>>

\* _receive_loop reads the answer, and _async_execute deserializes it.
ReceiveAnswer ==
  /\ stage = "answered"
  /\ msg' = FromJson(wire)
  /\ got' = DeserializeResult(msg'.result)
  /\ stage' = "done"
  /\ UNCHANGED <<given, wire>>

\* A message is sent and read.
Post ==
  /\ stage = "post"
  /\ wire' = ToJson(given)
  /\ msg' = FromJson(wire')
  /\ stage' = "posted"
  /\ UNCHANGED <<given, got>>

\* The exchange is over.
Over == stage \in {"done", "posted"} /\ UNCHANGED wireVars

WireNext == Call \/ Answer \/ ReceiveAnswer \/ Post \/ Over

WireSpec == WireInit /\ [][WireNext]_wireVars

-----------------------------------------------------------------------------

\* Every value inside v, and v.
RECURSIVE Parts(_)
Parts(v) ==
  {v} \union UNION {Parts(x) : x \in CASE v.t \in {"list", "tuple"} -> Range(v.vs)
                                      [] v.t = "dict" -> Range(v.items)
                                      [] v.t = "set" -> v.elems
                                      [] OTHER -> {}}

\* The values the encoding refuses: it cannot pickle or unpickle a part, a
\* dict has a key that JSON does not know, a set would have to hold a list.
Refused(v) ==
  \E x \in Parts(v) :
    \/ x.t \in {"lambda", "objects"}
    \/ x.t = "dict" /\ TupleKey \in DOMAIN x.items
    \/ x.t = "set" /\ \E y \in x.elems : y.t = "tuple"

\* The values that lose something on the way without an error: a foreign object
\* or a tensor arrives as its repr, and of the keys 1 and "1" one survives.
Damaged(v) ==
  \E x \in Parts(v) :
    \/ x.t \in {"object", "tensor"}
    \/ x.t = "dict" /\ {IntKey, "1"} \subseteq DOMAIN x.items

\* The value itself, but for what JSON does not tell apart: a list and a
\* tuple, a number as a key and its text.
RECURSIVE UpToJson(_)
UpToJson(v) ==
  CASE v.t \in {"list", "tuple"} -> List([i \in DOMAIN v.vs |-> UpToJson(v.vs[i])])
    [] v.t = "dict" ->
         Dict([k \in {IF k = IntKey THEN "1" ELSE k : k \in DOMAIN v.items} |->
                 UpToJson(v.items[IF k \in DOMAIN v.items THEN k ELSE IntKey])])
    [] v.t = "set" -> SetOf({UpToJson(x) : x \in v.elems})
    [] OTHER -> v

\* What goes through serialize_args, two messages and deserialize_result arrives
\* as the value it was, however it is nested and whatever its dicts' keys are,
\* so that nothing in it is mistaken for one of the serializer's own tags; a
\* value that the encoding refuses raises and never arrives in part.  Damaged
\* values are left out: those are the losses nobody is told of.
RoundTrip ==
  stage = "done" /\ ~Damaged(given) =>
    got = IF Refused(given) THEN Raise ELSE UpToJson(given)

\* A message that the constructors build is read back field by field, falsy results
\* and parameters and empty metadata included.
WireLossless == stage = "posted" => msg = given

\* What is sent arrives or is refused: the values of a call and its answer, and
\* the fields of any message.
NothingLostOnWire == RoundTrip /\ WireLossless
=============================================================================
