------------------------------ MODULE Protocol ------------------------------
(***************************************************************************)
(* The messages of shared/protocol.py: RPCMessage, the constructors        *)
(* make_..., and the way to and from JSON text.                            *)
(*                                                                         *)
(* A Python value is a record tagged with its type.  A dict is a function  *)
(* from keys; the key IntKey stands for the integer 1, TupleKey for a      *)
(* tuple, every other key for the string it is.  One bytes value, one array and so on stand for all.  *)
(* JSON text is modelled by the value json.loads reads back from it, which *)
(* is the library's: JsonText says what it is.                             *)
(***************************************************************************)
EXTENDS Integers, Sequences

CONSTANT Json(_)  \* json.loads(json.dumps(..., default=str))

None == [t |-> "none"]
Str(s) == [t |-> "str", s |-> s]
Num(n) == [t |-> "num", n |-> n]
List(vs) == [t |-> "list", vs |-> vs]
Tuple(vs) == [t |-> "tuple", vs |-> vs]
SetOf(S) == [t |-> "set", elems |-> S]
Dict(items) == [t |-> "dict", items |-> items]
Other(kind) == [t |-> kind]
Empty == Dict(<< >>)

Scalar(v) == v.t \in {"none", "str", "num"}

\* Python's truth value.
Truthy(v) == v \notin {None, Str(""), Num(0), List(<< >>), Empty}

IntKey == "1 (int)"
TupleKey == "() (tuple)"

\* An exception, and what is built from parts, unless making one of them raised.
Raise == Other("raise")
Built(parts, v) == IF \E i \in DOMAIN parts : parts[i] = Raise THEN Raise ELSE v

-----------------------------------------------------------------------------

\* dict.get
Get(d, k) == IF k \in DOMAIN d THEN d[k] ELSE None

Or(v, default) == IF Truthy(v) THEN v ELSE default

\* RPCMessage.__init__ with the keyword arguments f: an id, a time stamp and
\* the two dicts are filled in when they are missing or falsy.
RPCMessage(f) ==
  [type |-> f["type"],
   id |-> Or(Get(f, "id"), Str("new id")),
   method |-> Get(f, "method"),
   params |-> Or(Get(f, "params"), Empty),
   result |-> Get(f, "result"),
   error |-> Get(f, "error"),
   timestamp |-> Or(Get(f, "timestamp"), Str("now")),
   metadata |-> Or(Get(f, "metadata"), Empty)]

\* RPCMessage.to_dict: optional fields are left out when they are falsy, a result
\* only when it is None.
ToDict(m) ==
  [k \in {"type", "id", "timestamp"} \union
         {x \in {"method", "params", "error", "metadata"} : Truthy(m[x])} \union
         {x \in {"result"} : m[x] # None} |-> m[k]]

\* RPCMessage.from_dict; a missing type means a call.
FromDict(d) ==
  RPCMessage([k \in DOMAIN d \union {"type"} |-> IF k \in DOMAIN d THEN d[k] ELSE Str("rpc.call")])

ToJson(m) == Json(Dict(ToDict(m)))
FromJson(text) == FromDict(text.items)

-----------------------------------------------------------------------------
(* The constructors.                                                       *)

Make(type, f) ==
  RPCMessage([k \in DOMAIN f \union {"type"} |-> IF k = "type" THEN Str(type) ELSE f[k]])

MakeCall(method, params) == Make("rpc.call", [method |-> Str(method), params |-> params])
MakeResult(call_id, result) == Make("rpc.result", [id |-> call_id, result |-> result])
MakeError(call_id, code, message, data) ==
  Make("rpc.error",
       [id |-> call_id,
        error |-> Dict([code |-> Str(code), message |-> Str(message), data |-> data])])
MakeHeartbeat == Make("rpc.heartbeat", << >>)
MakeHeartbeatAck(ping_id) == Make("rpc.heartbeat.ack", [id |-> ping_id])
MakeStreamStart(call_id, metadata) ==
  Make("rpc.stream.start", [id |-> call_id, metadata |-> metadata])
MakeStreamChunk(call_id, data, index) ==
  Make("rpc.stream.chunk",
       [id |-> call_id, result |-> data, metadata |-> Dict([index |-> Num(index)])])
MakeStreamEnd(call_id) == Make("rpc.stream.end", [id |-> call_id])
MakeNotification(method, params) == Make("rpc.notify", [method |-> Str(method), params |-> params])
MakeLog(level, message, source) ==
  Make("rpc.log", [params |-> Dict([level |-> Str(level), message |-> Str(message),
                                source |-> Str(source)])])

\* The percentage is kept in tenths, rounded to the nearest.
MakeProgress(task, current, total, message) ==
  LET n == IF total > 1 THEN total ELSE 1 IN
  Make("rpc.progress",
       [params |-> Dict([task |-> Str(task), current |-> Num(current), total |-> Num(total),
                         message |-> Str(message),
                         percent |-> Num((2000 * current + n) \div (2 * n))])])
MakeSessionInit(device_info) == Make("session.init", [params |-> device_info])
=============================================================================
