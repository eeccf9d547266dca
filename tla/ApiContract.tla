---------------------------- MODULE ApiContract ----------------------------
(* The generated client against the daemon's handlers: a caller fills in an    *)
(* operation's builder, `send` refuses it or puts a request on the wire, axum's*)
(* extractors and the handler answer, and the client sorts the answer by its   *)
(* table of statuses.  Requests and replies get lost, the caller gives up and  *)
(* sends the same call again, and a request given up on may still be handled.  *)
(* One VM id stands for every id; another client may change its VM once.       *)
EXTENDS Naturals, FiniteSets, TLC

CONSTANTS
  MaxTries,   \* how often the caller sends the same call
  MaxOthers   \* how often somebody else changes the VM meanwhile

ASSUME ApiContractAssumption == MaxTries \in Nat \ {0} /\ MaxOthers \in Nat

Types == INSTANCE ApiTypes
Daemon == INSTANCE DaemonTypes

-----------------------------------------------------------------------------
(* The client's operations: verb and route, the path parameters, the query's  *)
(* required and optional ones, their integers, the body, the status of        *)
(* success and what it carries, and the statuses that carry an ErrorBody.     *)

Op(verb, route, path, query, optional, ints, body, ok, gives, refusals) ==
  [verb |-> verb, route |-> route, path |-> path, query |-> query, optional |-> optional,
   ints |-> ints, body |-> body, ok |-> ok, gives |-> gives, refusals |-> refusals]

NoInts == Types!None

Stats == Op("GET", "/stats", {}, {}, {}, NoInts, "", 200, "Stats", {})

ListTemplates == Op("GET", "/templates", {}, {}, {}, NoInts, "", 200, "Template", {})

RegisterTemplate ==
  Op("POST", "/templates", {}, {}, {}, NoInts, "TemplateRequest", 201, "", {})

StartBuild ==
  Op("POST", "/templates/build", {}, {}, {}, NoInts, "BuildRequest",
     202, "BuildStatus", {400, 409, 501})

ListBuilds == Op("GET", "/templates/builds", {}, {}, {}, NoInts, "", 200, "BuildStatus", {})

GetBuild ==
  Op("GET", "/templates/builds/{name}", {"name"}, {}, {}, NoInts, "", 200, "BuildStatus", {404})

List == Op("GET", "/vms", {}, {}, {}, NoInts, "", 200, "Vm", {})

Create ==
  Op("POST", "/vms", {}, {}, {}, NoInts, "CreateVmRequest", 200, "CreatedVm", {400, 404, 409})

GetOne == Op("GET", "/vms/{id}", {"id"}, {}, {}, NoInts, "", 200, "Vm", {404})

Destroy == Op("DELETE", "/vms/{id}", {"id"}, {}, {}, NoInts, "", 204, "", {404, 409})

AgentInfo ==
  Op("GET", "/vms/{id}/agent", {"id"}, {}, {}, NoInts, "", 200, "AgentInfo", {409, 502})

FileInts == [max_bytes |-> "i64"]

ListDirBounded ==
  Op("GET", "/vms/{id}/dir", {"id"}, {"path", "max_bytes"}, {"recursive"}, FileInts, "",
     200, "DirListing", {400, 409, 502})
ListDir ==
  Op("GET", "/vms/{id}/dir", {"id"}, {"path"}, {"max_bytes", "recursive"}, FileInts, "",
     200, "DirListing", {400, 409, 502})

GuestExec ==
  Op("POST", "/vms/{id}/exec", {"id"}, {}, {}, NoInts, "ExecRequest",
     200, "ExecResult", {400, 409, 502, 504})

ReadFile ==
  Op("GET", "/vms/{id}/files", {"id"}, {"path"}, {"max_bytes", "recursive"}, FileInts, "",
     200, "FileContent", {400, 409, 502})

WriteFile ==
  Op("PUT", "/vms/{id}/files", {"id"}, {"path"}, {"max_bytes", "recursive"}, FileInts,
     "WriteFileRequest", 200, "Written", {400, 409, 502})

RemovePath ==
  Op("DELETE", "/vms/{id}/files", {"id"}, {"path"}, {"max_bytes", "recursive"}, FileInts, "",
     204, "", {400, 409, 502})

AddForward ==
  Op("POST", "/vms/{id}/forwards", {"id"}, {}, {}, NoInts, "AddForwardRequest",
     200, "PortForward", {404, 409})

RemoveForward ==
  Op("DELETE", "/vms/{id}/forwards/{host_port}", {"id", "host_port"}, {}, {"proto"},
     [host_port |-> "i32"], "", 204, "", {404})

HaltStops == Op("POST", "/vms/{id}/stop", {"id"}, {}, {}, NoInts, "", 204, "", {404, 409})
Halt == Op("POST", "/vms/{id}/halt", {"id"}, {}, {}, NoInts, "", 204, "", {404, 409})

SetPolicy ==
  Op("PATCH", "/vms/{id}/policy", {"id"}, {}, {}, NoInts, "PolicyRequest", 204, "", {400, 404})

RetireSuspension ==
  Op("POST", "/vms/{id}/retire-suspension", {"id"}, {}, {}, NoInts, "", 204, "", {404, 409})

Start == Op("POST", "/vms/{id}/start", {"id"}, {}, {}, NoInts, "", 204, "", {404, 409})

Stop == Op("POST", "/vms/{id}/stop", {"id"}, {}, {}, NoInts, "", 204, "", {404, 409})

Suspend == Op("POST", "/vms/{id}/suspend", {"id"}, {}, {}, NoInts, "", 204, "", {404, 409})

Terminate == Op("POST", "/vms/{id}/terminate", {"id"}, {}, {}, NoInts, "", 204, "", {404, 409})

\* The client's methods, by the operation each starts a builder for.
Client ==
  [stats |-> Stats, list_templates |-> ListTemplates, register_template |-> RegisterTemplate,
   start_build |-> StartBuild, list_builds |-> ListBuilds, get_build |-> GetBuild,
   list |-> List, create |-> Create, get_one |-> GetOne, destroy |-> Destroy,
   agent_info |-> AgentInfo, list_dir |-> ListDir, guest_exec |-> GuestExec,
   read_file |-> ReadFile, write_file |-> WriteFile, remove_path |-> RemovePath,
   add_forward |-> AddForward, remove_forward |-> RemoveForward, halt |-> Halt,
   set_policy |-> SetPolicy, retire_suspension |-> RetireSuspension, start |-> Start,
   stop |-> Stop, suspend |-> Suspend, terminate |-> Terminate]

\* The daemon's routes, by the handler each verb and path leads to.
Router ==
     <<"POST", "/vms">> :> "create"
  @@ <<"GET", "/vms">> :> "list"
  @@ <<"GET", "/vms/{id}">> :> "get_one"
  @@ <<"DELETE", "/vms/{id}">> :> "destroy"
  @@ <<"POST", "/vms/{id}/start">> :> "start"
  @@ <<"POST", "/vms/{id}/stop">> :> "stop"
  @@ <<"POST", "/vms/{id}/suspend">> :> "suspend"
  @@ <<"POST", "/vms/{id}/halt">> :> "halt"
  @@ <<"POST", "/vms/{id}/terminate">> :> "terminate"
  @@ <<"POST", "/vms/{id}/retire-suspension">> :> "retire_suspension"
  @@ <<"PATCH", "/vms/{id}/policy">> :> "set_policy"
  @@ <<"POST", "/vms/{id}/forwards">> :> "add_forward"
  @@ <<"DELETE", "/vms/{id}/forwards/{host_port}">> :> "remove_forward"
  @@ <<"GET", "/vms/{id}/agent">> :> "agent_info"
  @@ <<"POST", "/vms/{id}/exec">> :> "guest_exec"
  @@ <<"GET", "/vms/{id}/files">> :> "read_file"
  @@ <<"PUT", "/vms/{id}/files">> :> "write_file"
  @@ <<"DELETE", "/vms/{id}/files">> :> "remove_path"
  @@ <<"GET", "/vms/{id}/dir">> :> "list_dir"
  @@ <<"POST", "/templates">> :> "register_template"
  @@ <<"GET", "/templates">> :> "list_templates"
  @@ <<"POST", "/templates/build">> :> "start_build"
  @@ <<"GET", "/templates/builds">> :> "list_builds"
  @@ <<"GET", "/templates/builds/{name}">> :> "get_build"
  @@ <<"GET", "/stats">> :> "stats"

-----------------------------------------------------------------------------
(* What a caller gives.  Integers are told apart by the widths they fit in,    *)
(* texts by whether the daemon can make sense of them.                         *)

Holds ==
  [u16 |-> {"small"}, i32 |-> {"small", "over16", "negative"},
   u32 |-> {"small", "over16", "over31"}, i64 |-> {"small", "over16", "over31", "negative"},
   u64 |-> {"small", "over16", "over31"}]

Integers32 == {"small", "over16", "over31", "negative"}

TextValues(f) ==
  CASE f = "egress" -> {"proxy", "odd"}
    [] f \in {"id", "template", "rules", "signed", "cmd", "name", "image"} -> {"text", "odd"}
    [] OTHER -> {"text"}

BodyOf(op) == IF op.body = "" THEN Types!Shape({}, {}, NoInts, NoInts) ELSE Types!Struct[op.body]

UnsetOf(op) == IF op.body = "" THEN {} ELSE Types!BuilderOf[op.body].unset

Required(op) == op.path \cup op.query \cup UnsetOf(op)

Optional(op) == op.optional \cup ((BodyOf(op).needs \cup BodyOf(op).may) \ UnsetOf(op))

Width(op) == op.ints @@ BodyOf(op).ints

ValuesOf(op, f) == IF f \in DOMAIN Width(op) THEN Integers32 ELSE TextValues(f)

Plain(op, f) ==
  CASE f \in DOMAIN Width(op) -> "small" [] f = "egress" -> "proxy" [] OTHER -> "text"

\* Every field of `fields` with its plain value but for at most one.
Fillings(op, fields) ==
  LET plain == [f \in fields |-> Plain(op, f)]
  IN {plain} \cup
     {[plain EXCEPT ![fv[1]] = fv[2]] :
        fv \in {x \in fields \X (Integers32 \cup {"text", "odd", "proxy"}) :
                  x[2] \in ValuesOf(op, x[1])}}

\* A library caller may forget a required field and give one or two others.
ApiCalls ==
  UNION {{[via |-> "api", op |-> o, given |-> g] :
            g \in UNION {Fillings(Client[o], (Required(Client[o]) \ forgot) \cup extra) :
                           forgot \in {x \in SUBSET Required(Client[o]) : Cardinality(x) <= 1},
                           extra \in {x \in SUBSET Optional(Client[o]) :
                                        Cardinality(x) <= IF o \in {"create", "write_file"} THEN 2 ELSE 1}}} :
         o \in DOMAIN Client}

\* isoctl's commands: the operation each runs, the fields it always sets and
\* the ones a flag sets.
Isoctl ==
  [list |-> {}, get_one |-> {"id"}, destroy |-> {"id"}, start |-> {"id"}, stop |-> {"id"},
   halt |-> {"id"}, suspend |-> {"id"}, agent_info |-> {"id"},
   create |-> {"template", "egress", "lifecycle", "restart", "allow", "rules", "ingress", "labels"},
   set_policy |-> {"id"}, guest_exec |-> {"id", "cmd", "args", "env"},
   read_file |-> {"id", "path"}, write_file |-> {"id", "path", "content_b64", "mkdir"},
   list_dir |-> {"id", "path"}, remove_path |-> {"id", "path", "recursive"}]

IsoctlFlags ==
  [create |-> {"principal", "vcpus", "mem_mib"},
   set_policy |-> {"egress", "principal", "allow", "rules"},
   guest_exec |-> {"cwd", "stdin", "timeout_ms"}, write_file |-> {"mode"}]

\* `as i32` keeps the low bits: a count from 2^31 up turns negative.
Cast(op, f, v) ==
  IF f \in DOMAIN Width(op) /\ Width(op)[f] = "i32" /\ v = "over31" THEN "negative" ELSE v

IsoctlCalls ==
  UNION {{[via |-> "isoctl", op |-> o, given |-> [f \in DOMAIN g |-> Cast(Client[o], f, g[f])]] :
            g \in UNION {Fillings(Client[o], Isoctl[o] \cup flags) :
                           flags \in SUBSET (IF o \in DOMAIN IsoctlFlags
                                             THEN IsoctlFlags[o] ELSE {})}} :
         o \in DOMAIN Isoctl}

-----------------------------------------------------------------------------
VARIABLES
  call,     \* what the caller wants done
  durable,  \* the VM's lifecycle
  vm,       \* the state the daemon has the VM in
  mode,     \* its egress mode
  sent,     \* how many requests of the call have gone out
  wire,     \* the requests the daemon may still handle
  answer,   \* by request, what the daemon answered
  did,      \* by request, what the handler did
  waiting,  \* the request the caller waits for, or 0
  result,   \* what `send` returned
  made,     \* how often a create made the VM
  others    \* how often another client changed the VM

vars == <<call, durable, vm, mode, sent, wire, answer, did, waiting, result, made, others>>

Tries == 1..MaxTries

VmStates == {"absent", "running", "suspended", "stopped"}

NoAnswer == [status |-> 0]
NotDone == [handler |-> "none"]
Pending == [kind |-> "pending"]

Given(f) == f \in DOMAIN call.given
Odd(f) == Given(f) /\ call.given[f] = "odd"

Init ==
  /\ call \in ApiCalls \cup IsoctlCalls
  /\ durable \in BOOLEAN
  /\ vm \in VmStates
  /\ mode = "deny"
  /\ sent = 0
  /\ wire = {}
  /\ answer = [n \in Tries |-> NoAnswer]
  /\ did = [n \in Tries |-> NotDone]
  /\ waiting = 0
  /\ result = Pending
  /\ made = 0
  /\ others = 0

-----------------------------------------------------------------------------
(* The daemon: axum's extractors first, then the handler.                      *)

FileHandlers == {"list_dir", "read_file", "write_file", "remove_path"}

\* The extractors of a handler: the integers of its path, its query, its body.
PathInts(h) == IF h = "remove_forward" THEN [host_port |-> "u16"] ELSE Daemon!None

Query(h) ==
  CASE h \in FileHandlers -> Daemon!PathQuery
    [] h = "remove_forward" -> Daemon!ProtoQuery
    [] OTHER -> Daemon!Shape({}, {}, Daemon!None, Daemon!None)

Bodies ==
  [create |-> "CreateVmRequest", register_template |-> "TemplateRequest",
   set_policy |-> "PolicyRequest", add_forward |-> "AddForwardRequest",
   guest_exec |-> "ExecRequest", write_file |-> "WriteFileRequest",
   start_build |-> "BuildRequest"]

Body(h) ==
  IF h \in DOMAIN Bodies THEN Daemon!Dto[Bodies[h]]
  ELSE Daemon!Shape({}, {}, Daemon!None, Daemon!None)

Fits(ints) == \A f \in DOMAIN ints : Given(f) => call.given[f] \in Holds[ints[f]]

\* A nested struct of the client's carries what its builder insists on.
NestedDecodes(shape) ==
  \A f \in DOMAIN shape.nested :
    Given(f) => Daemon!Dto[shape.nested[f]].needs \subseteq Types!BuilderOf[shape.nested[f]].unset

Decodes(shape) ==
  shape.needs \subseteq DOMAIN call.given /\ Fits(shape.ints) /\ NestedDecodes(shape)

\* The first extractor that fails answers, in plain text.
Rejection(h) ==
  CASE ~Fits(PathInts(h)) \/ ~Decodes(Query(h)) -> 400
    [] ~Decodes(Body(h)) -> 422
    [] OTHER -> 0

\* The file operations share one query; each decodes all of it and goes by a
\* part.  A policy's egress that does not parse is left out.
Ignores(h) ==
  CASE h \in {"list_dir", "write_file"} -> {"max_bytes", "recursive"}
    [] h = "read_file" -> {"recursive"}
    [] h = "remove_path" -> {"max_bytes"}
    [] h = "set_policy" /\ Odd("egress") -> {"egress"}
    [] OTHER -> {}

\* The fields a handler goes by.
Reads(h) ==
  (Query(h).needs \cup Query(h).may \cup Body(h).needs \cup Body(h).may
    \cup {"id", "host_port", "name"}) \ Ignores(h)

EgressFromOpens(v) == IF v = "deny" THEN "deny" ELSE "proxy"
EgressFrom(v) == IF v = "proxy" THEN "proxy" ELSE "deny"

EgressParse(v) == IF v \in {"proxy", "deny"} THEN v ELSE mode

\* The control plane's errors, by the status each becomes.
CpStatus(e) ==
  CASE e \in {"UnknownVm", "UnknownTemplate", "UnknownForward"} -> 404
    [] e \in {"VmExists", "SlotsExhausted", "PortsExhausted", "PoolFull", "InvalidState"} -> 409
    [] e \in {"InvalidRule", "SignedMismatch"} -> 400
    [] OTHER -> 500

\* The guest client's errors: the agent's refusal, or not reaching it.
ClientStatus(e) == IF e = "Agent" THEN 400 ELSE 502

\* An outcome: the status, why, and the VM's state and mode after it.
Out(status, why, v, m) == [status |-> status, why |-> why, vm |-> v, mode |-> m]

Refuse(status, why) == Out(status, why, vm, mode)

Fail(e) ==
  Refuse(CpStatus(e), IF e = "InvalidState" THEN "state" ELSE IF e = "UnknownVm" THEN "unknown" ELSE e)

\* A backend or the store fails.
Broke == {Refuse(CpStatus("Component"), "backend")}

Done(status) == Out(status, "done", vm, mode)

\* The id is taken; a create that does not look.
ExistsNever == FALSE
Exists == Given("id") /\ vm # "absent"

CreateVm ==
  CASE Odd("id") -> {Refuse(400, "id")}
    [] Odd("rules") -> {Fail("InvalidRule")}
    [] Odd("template") -> {Fail("UnknownTemplate")}
    [] OTHER ->
         {Fail("PoolFull")} \cup
         (CASE Odd("signed") -> {Fail("SignedMismatch")}
            [] Exists -> {Fail("VmExists")}
            [] OTHER ->
                 {Fail("SlotsExhausted")} \cup Broke
                   \cup {Fail("PortsExhausted") : x \in {"ingress"} \cap DOMAIN call.given}
                   \cup {IF Given("id")
                         THEN Out(200, "done", "running",
                                  IF Given("egress") THEN EgressFrom(call.given.egress) ELSE "deny")
                         ELSE Done(200)})

WithId(outcomes) == IF Odd("id") THEN {Refuse(400, "id")} ELSE outcomes

Known(outcomes) == IF vm = "absent" THEN {Fail("UnknownVm")} ELSE outcomes

Moves(v) == Broke \cup {Out(204, "done", v, mode)}

\* cp.start_vm, stop_vm and the others behind `lifecycle_handler!`.
Lifecycle(h) ==
  CASE h = "start" ->
         (CASE vm = "suspended" -> Moves("running")
            [] vm = "stopped" -> Moves("running") \cup {Fail("SlotsExhausted"), Fail("UnknownTemplate")}
            [] OTHER -> {Fail("InvalidState")})
    [] h = "suspend" -> IF vm = "running" THEN Moves("suspended") ELSE {Fail("InvalidState")}
    [] h \in {"stop", "halt"} -> Moves(IF durable THEN "stopped" ELSE "absent")
    [] h = "terminate" -> IF durable THEN Moves("stopped") ELSE {Refuse(CpStatus("Component"), "state")}
    [] h = "retire_suspension" ->
         IF durable /\ vm = "suspended" THEN Moves("stopped")
         ELSE {Refuse(CpStatus("Component"), "state")}
    [] OTHER -> Moves("absent")

\* guest() and bounded(): the channel, then the agent's answer within the time.
Guest(status) ==
  WithId(Known(
    IF vm # "running" THEN {Fail("InvalidState")}
    ELSE {Refuse(CpStatus("Component"), "unreachable")}
           \cup {Refuse(ClientStatus("Agent"), "agent"), Refuse(ClientStatus("Io"), "unreachable"),
                 Refuse(504, "slow"), Done(status)}))

ExecHandler == IF Odd("cmd") THEN {Refuse(400, "cmd")} ELSE Guest(200)

WriteHandler ==
  IF Given("content") = Given("content_b64") THEN {Refuse(400, "content")} ELSE Guest(200)

PolicyHandler ==
  WithId(Known(
    IF Odd("rules") THEN {Fail("InvalidRule")}
    ELSE IF Odd("signed") THEN {Fail("SignedMismatch")}
    ELSE Broke \cup {Out(204, "done", vm,
                         IF Given("egress") THEN EgressParse(call.given.egress) ELSE mode)}))

AddForwardHandler ==
  WithId(Known(Broke \cup {Fail("PortsExhausted"), Done(200)}))

RemoveForwardHandler ==
  WithId({Fail("UnknownForward")} \cup
         (IF vm = "absent" THEN {} ELSE Broke \cup {Done(204)}))

BuildHandler ==
  {Refuse(501, "build")} \cup
  (IF Odd("name") \/ Odd("image") THEN {Refuse(400, "build")}
   ELSE {Refuse(409, "build"), Done(202)})

Outcomes(h) ==
  CASE h = "create" -> CreateVm
    [] h \in {"start", "stop", "suspend", "halt", "terminate", "retire_suspension", "destroy"} ->
         WithId(Known(Lifecycle(h)))
    [] h = "get_one" -> WithId(Known({Done(200), Fail("Store")}))
    [] h \in {"list", "list_templates", "stats"} -> {Done(200), Fail("Store")}
    [] h = "list_builds" -> {Done(200)}
    [] h = "get_build" -> {Done(200), Refuse(404, "build")}
    [] h = "register_template" -> {Fail("Store"), Done(201)}
    [] h = "set_policy" -> PolicyHandler
    [] h = "add_forward" -> AddForwardHandler
    [] h = "remove_forward" -> RemoveForwardHandler
    [] h = "start_build" -> BuildHandler
    [] h = "guest_exec" -> ExecHandler
    [] h = "write_file" -> WriteHandler
    [] h = "remove_path" -> Guest(204)
    [] OTHER -> Guest(200)

\* What a success carries.
Carries ==
  [create |-> "CreatedVm", list |-> "Vm", get_one |-> "Vm", list_templates |-> "Template",
   add_forward |-> "PortForward", stats |-> "Stats", agent_info |-> "AgentInfo",
   guest_exec |-> "ExecResult", read_file |-> "FileContent", write_file |-> "Written",
   list_dir |-> "DirListing", start_build |-> "BuildStatus", list_builds |-> "BuildStatus",
   get_build |-> "BuildStatus"]

Text(status) == [status |-> status, json |-> FALSE, fields |-> {}, wide |-> {}]

ErrorAnswer(status) ==
  [status |-> status, json |-> TRUE, fields |-> Daemon!ErrorBody.needs, wide |-> {}]

\* A success with the optional fields or without, and with at most one number
\* that a signed integer of the same size cannot hold.
Successes(h, status) ==
  IF h \notin DOMAIN Carries THEN {Text(status)}
  ELSE LET dto == Daemon!Dto[Carries[h]]
       IN {[status |-> status, json |-> TRUE, fields |-> dto.needs \cup may, wide |-> wide] :
             may \in {{}, dto.may},
             wide \in {{}} \cup {{f} : f \in {x \in DOMAIN dto.ints : dto.ints[x] = "u32"}}}

-----------------------------------------------------------------------------
(* The client.                                                                 *)

\* Every required field was given, and every setter could convert its value.
Accepted ==
  LET op == Client[call.op]
  IN /\ Required(op) \subseteq DOMAIN call.given
     /\ \A f \in DOMAIN Width(op) : Given(f) => call.given[f] \in Holds[Width(op)[f]]

Send ==
  /\ waiting = 0
  /\ sent < MaxTries
  /\ result.kind \in {"pending", "CommunicationError"}
  /\ IF Accepted
     THEN /\ sent' = sent + 1
          /\ wire' = wire \cup {sent + 1}
          /\ waiting' = sent + 1
          /\ result' = Pending
     ELSE /\ result' = [kind |-> "InvalidRequest"]
          /\ UNCHANGED <<sent, wire, waiting>>
  /\ UNCHANGED <<call, durable, vm, mode, answer, did, made, others>>

\* The daemon takes a request off the wire, whether or not anyone still waits.
Handle(n) ==
  /\ n \in wire
  /\ wire' = wire \ {n}
  /\ LET h == Router[<<Client[call.op].verb, Client[call.op].route>>]
     IN \/ /\ Rejection(h) # 0
           /\ answer' = [answer EXCEPT ![n] = Text(Rejection(h))]
           /\ UNCHANGED <<vm, mode, did, made>>
        \/ /\ Rejection(h) = 0
           /\ \E o \in Outcomes(h) :
                /\ vm' = o.vm
                /\ mode' = o.mode
                /\ did' = [did EXCEPT ![n] =
                     [handler |-> h, why |-> o.why, read |-> DOMAIN call.given \cap Reads(h)]]
                /\ made' = IF h = "create" /\ o.why = "done" THEN made + 1 ELSE made
                /\ \E a \in (IF o.why = "done" THEN Successes(h, o.status)
                             ELSE {ErrorAnswer(o.status)}) :
                     answer' = [answer EXCEPT ![n] = a]
  /\ UNCHANGED <<call, durable, sent, waiting, result, others>>

\* The connection breaks before the daemon has begun: hyper drops the handler.
Drop(n) ==
  /\ n \in wire
  /\ n # waiting
  /\ wire' = wire \ {n}
  /\ UNCHANGED <<call, durable, vm, mode, sent, answer, did, waiting, result, made, others>>

\* The request, the reply or the caller's patience is lost.
GiveUp ==
  /\ waiting # 0
  /\ waiting' = 0
  /\ result' = [kind |-> "CommunicationError"]
  /\ UNCHANGED <<call, durable, vm, mode, sent, wire, answer, did, made, others>>

\* A decoded answer: every field the struct needs, every integer in its width.
Readable(shape, a) ==
  /\ a.json
  /\ shape.needs \subseteq a.fields
  /\ \A f \in DOMAIN shape.ints \cap a.wide : "over31" \in Holds[shape.ints[f]]
  /\ \A f \in DOMAIN shape.nested \cap a.fields :
       Types!Struct[shape.nested[f]].needs \subseteq Daemon!Dto[shape.nested[f]].needs

Classify(op, a) ==
  CASE a.status = op.ok ->
         IF op.gives = "" \/ Readable(Types!Struct[op.gives], a) THEN "ok"
         ELSE "InvalidResponsePayload"
    [] a.status \in op.refusals ->
         IF Readable(Types!ErrorBody, a) THEN "ErrorResponse" ELSE "InvalidResponsePayload"
    [] OTHER -> "UnexpectedResponse"

Receive ==
  /\ waiting # 0
  /\ answer[waiting] # NoAnswer
  /\ result' = [kind |-> Classify(Client[call.op], answer[waiting]), try |-> waiting]
  /\ waiting' = 0
  /\ UNCHANGED <<call, durable, vm, mode, sent, wire, answer, did, made, others>>

\* The caller takes the decoded answer back into its builder and out again.
Rebuild ==
  /\ result.kind = "ok"
  /\ Client[call.op].gives # ""
  /\ result' = [kind |-> IF Types!BuilderOf[Client[call.op].gives].unset
                              \subseteq answer[result.try].fields
                         THEN "rebuilt" ELSE "broken",
                try |-> result.try]
  /\ UNCHANGED <<call, durable, vm, mode, sent, wire, answer, did, waiting, made, others>>

\* Somebody else starts, stops or destroys the VM.
OtherClient ==
  /\ others < MaxOthers
  /\ others' = others + 1
  /\ vm # "absent"
  /\ \E v \in VmStates \ {vm} : vm' = v
  /\ UNCHANGED <<call, durable, mode, sent, wire, answer, did, waiting, result, made>>

Next ==
  \/ Send \/ GiveUp \/ Receive \/ Rebuild \/ OtherClient
  \/ \E n \in Tries : Handle(n) \/ Drop(n)

Spec == Init /\ [][Next]_vars

-----------------------------------------------------------------------------
(* Properties.                                                                 *)

Kinds == {"pending", "InvalidRequest", "CommunicationError", "ok", "ErrorResponse",
          "InvalidResponsePayload", "UnexpectedResponse", "rebuilt"}

\* The client's result is one of its error kinds or a value that its own builder
\* takes back (generated.rs: From<Vm> for builder::Vm and TryFrom back), and the
\* daemon answers only what it was sent.
TypeOK ==
  /\ result.kind \in Kinds
  /\ vm \in VmStates
  /\ mode \in {"deny", "proxy"}
  /\ wire \subseteq 1..sent
  /\ waiting \in 0..sent
  /\ \A n \in Tries : answer[n] # NoAnswer => n \in 1..sent \ wire

\* When `send` returns Ok, the handler of that very operation ran to its end for
\* that very request and went by every field the caller set (generated.rs's tables
\* of routes and statuses against http.rs's router, extractors and handlers).  Two
\* things are taken and not gone by: what the file operations' shared query has
\* that this one has no use for, and an egress that does not parse, which leaves
\* the policy's as it was.
DoneWhenOk ==
  result.kind \in {"ok", "rebuilt"} =>
    LET d == did[result.try]
        passed == DOMAIN call.given \ d.read IN
    /\ d.handler = call.op /\ d.why = "done"
    /\ passed \subseteq {"max_bytes", "recursive", "egress"}
    /\ "recursive" \in passed => call.op \in FileHandlers \ {"remove_path"}
    /\ "max_bytes" \in passed => call.op \in FileHandlers \ {"read_file"}
    /\ "egress" \in passed => call.op = "set_policy" /\ Odd("egress")

\* The two sides were generated from one document: a request the builder accepts
\* and whose integers fit the daemon's widths is never turned away by an
\* extractor, and an answer a handler gives is unreadable only when it carries a
\* number the client's signed type cannot hold (generated.rs against http.rs).
ContractHolds ==
  \A n \in Tries : answer[n] # NoAnswer =>
    /\ did[n] = NotDone =>
         \E f \in DOMAIN Width(Client[call.op]) : Given(f) /\ call.given[f] # "small"
    /\ result.kind = "InvalidResponsePayload" /\ result.try = n /\ did[n] # NotDone =>
         answer[n].wide # {}

\* However often a create that names its id is sent, lost and sent again, the VM
\* is made once, unless somebody took it away in between (http.rs CreateVmRequest:
\* "a retry after a lost reply is a `409`, never a second VM").
CreatedOnce == Given("id") => made <= 1 + others

\* A VM is in proxy mode only if a caller asked for exactly that: an egress the
\* daemon does not recognise never opens anything (http.rs: egress_from,
\* egress_parse).
FailsClosed == mode = "proxy" => Given("egress") /\ call.given.egress = "proxy"

\* isoctl never fills in a builder that its own client refuses, whatever flags
\* are given, but for a number its type cannot hold (vm.rs: run).
IsoctlComplete ==
  call.via = "isoctl" /\ result.kind = "InvalidRequest" =>
    \E f \in DOMAIN Width(Client[call.op]) : Given(f) /\ call.given[f] # "small"

\* What the client is told is what was done, however often a call is lost and
\* repeated: Ok means that its own handler did it, and no repetition makes a
\* second VM or opens a policy nobody asked to open (http.rs, generated.rs).
AnswersTrue == DoneWhenOk /\ CreatedOnce /\ FailsClosed

\* The generated client and its user isoctl fit the daemon: what is filled in is
\* sent, what is sent is read, and what is answered is understood.
ClientFits == TypeOK /\ ContractHolds /\ IsoctlComplete

\* docs/API.md's table of statuses: a VM in the wrong state is a 409, an agent
\* that cannot be reached a 502.  It does not hold: terminate and
\* retire_suspension in the wrong state, and a VMM that opens no channel to the
\* agent, are component errors, answered with 500 (http.rs: ApiError).
AnswersByTheTable ==
  \A n \in Tries : answer[n] # NoAnswer /\ did[n] # NotDone =>
    /\ did[n].why = "state" => answer[n].status = 409
    /\ did[n].why = "unreachable" => answer[n].status = 502

=============================================================================
