------------------------------ MODULE ApiTypes ------------------------------
(* The types of the generated client, iso-client/src/generated.rs: what each   *)
(* struct needs to be decoded and what its builder needs to be built.  A field *)
(* the decoder or the builder can do without has a default (None, an empty     *)
(* list).  Integers keep the width the OpenAPI document gives them; every      *)
(* other value is opaque.  DaemonTypes has the daemon's side of each.          *)

\* No field of the kind.
None == [x \in {} |-> x]

\* A struct: the fields it cannot be decoded without, the ones that default,
\* the widths of the integers among them, and the structs nested in it.
Shape(needs, may, ints, nested) ==
  [needs |-> needs, may |-> may, ints |-> ints, nested |-> nested]

\* A builder starts with these fields unset: it converts into the struct only
\* when each has been given.
Builder(unset) == [unset |-> unset]

AddForwardRequest == Shape({"vm_port"}, {"proto"}, [vm_port |-> "i32"], None)
AddForwardRequestBuilder == Builder({"vm_port"})

AgentInfo == Shape(
  {"agent", "cwd", "hostname", "uid", "version"},
  {},
  [uid |-> "i32"], None)
AgentInfoBuilder == Builder({"agent", "cwd", "hostname", "uid", "version"})

BuildRequest == Shape(
  {"image", "name"},
  {"force", "mem_mib", "size", "vcpus"},
  [mem_mib |-> "i32", vcpus |-> "i32"], None)
BuildRequestBuilder == Builder({"image", "name"})

BuildStatus == Shape(
  {"image", "log_tail", "name", "started_at", "state"},
  {"error", "finished_at"},
  [finished_at |-> "i64", started_at |-> "i64"], None)
BuildStatusBuilder == Builder({"image", "log_tail", "name", "started_at", "state"})

CreateVmRequest == Shape(
  {"template"},
  {"allow", "egress", "id", "ingress", "labels", "lifecycle", "mem_mib", "principal",
   "restart", "rules", "signed", "vcpus"},
  [mem_mib |-> "i32", vcpus |-> "i32"], [ingress |-> "PortForward",
   signed |-> "SignedPolicyDto"])
CreateVmRequestBuilder == Builder({"template"})

CreatedVm == Shape({"id"}, {}, None, None)
CreatedVmBuilder == Builder({"id"})

DirEntry == Shape(
  {"kind", "mode", "name", "size"},
  {},
  [mode |-> "i32", size |-> "i64"], None)
DirEntryBuilder == Builder({"kind", "mode", "name", "size"})

DirListing == Shape({"entries"}, {}, None, [entries |-> "DirEntry"])
DirListingBuilder == Builder({"entries"})

ErrorBody == Shape({"error"}, {}, None, None)
ErrorBodyBuilder == Builder({"error"})

ExecRequest == Shape(
  {"cmd"},
  {"args", "cwd", "env", "max_output_bytes", "stdin", "timeout_ms", "user"},
  [max_output_bytes |-> "i64", timeout_ms |-> "i64"], None)
ExecRequestBuilder == Builder({"cmd"})

ExecResult == Shape(
  {"duration_ms", "stderr", "stdout", "timed_out", "truncated"},
  {"exit_code", "signal"},
  [duration_ms |-> "i64", exit_code |-> "i32", signal |-> "i32"], None)
ExecResultBuilder == Builder({"duration_ms", "stderr", "stdout", "timed_out", "truncated"})

FileContent == Shape(
  {"content_b64", "path", "size", "truncated"},
  {},
  [size |-> "i64"], None)
FileContentBuilder == Builder({"content_b64", "path", "size", "truncated"})

PolicyRequest == Shape(
  {},
  {"allow", "egress", "principal", "rules", "signed"},
  None, [signed |-> "SignedPolicyDto"])
PolicyRequestBuilder == Builder({})

PortForward == Shape(
  {"proto", "vm_port"},
  {"host_port"},
  [host_port |-> "i32", vm_port |-> "i32"], None)
PortForwardBuilder == Builder({"proto", "vm_port"})

SignedPolicyDto == Shape({"claims", "sig"}, {}, None, None)
SignedPolicyDtoBuilder == Builder({"claims", "sig"})

Stats == Shape(
  {"data_percent", "metadata_percent", "slots_total", "slots_used", "vms"},
  {"filesystem_available_bytes", "filesystem_capacity_bytes", "pool_capacity_bytes",
   "pool_used_bytes", "snapshot_bytes", "storage_backend"},
  [filesystem_available_bytes |-> "i64", filesystem_capacity_bytes |-> "i64",
   pool_capacity_bytes |-> "i64", pool_used_bytes |-> "i64", slots_total |-> "u64",
   slots_used |-> "u64", snapshot_bytes |-> "i64", vms |-> "u64"], None)
StatsBuilder == Builder(
  {"data_percent", "metadata_percent", "slots_total", "slots_used", "vms"})

Template == Shape(
  {"mem_mib", "name", "vcpus", "warm"},
  {},
  [mem_mib |-> "i32", vcpus |-> "i32"], None)
TemplateBuilder == Builder({"mem_mib", "name", "vcpus", "warm"})

TemplateRequest == Shape(
  {"kernel", "mem_mib", "name", "rootfs_template", "vcpus"},
  {"boot_args", "snapshot_mem", "snapshot_vmstate"},
  [mem_mib |-> "i32", vcpus |-> "i32"], None)
TemplateRequestBuilder == Builder({"kernel", "mem_mib", "name", "rootfs_template", "vcpus"})

Vm == Shape(
  {"allow", "egress", "id", "ingress", "labels", "lifecycle", "policy_gen", "restart",
   "rules", "state", "template"},
  {"principal", "rootfs_device", "signed", "slot", "tap"},
  [policy_gen |-> "i64", slot |-> "i32"], [ingress |-> "PortForward",
   signed |-> "SignedPolicyDto"])
\* A builder that insists on an optional field.
VmBuilderWantsTap == Builder({"id", "tap"})
VmBuilder == Builder(
  {"allow", "egress", "id", "ingress", "labels", "lifecycle", "policy_gen", "restart",
   "rules", "state", "template"})

WriteFileRequest == Shape(
  {},
  {"content", "content_b64", "mkdir", "mode"},
  [mode |-> "i32"], None)
WriteFileRequestBuilder == Builder({})

Written == Shape({"bytes"}, {}, [bytes |-> "i64"], None)
WrittenBuilder == Builder({"bytes"})

\* The structs and the builders by name.
Struct ==
  [AddForwardRequest |-> AddForwardRequest, AgentInfo |-> AgentInfo,
   BuildRequest |-> BuildRequest, BuildStatus |-> BuildStatus,
   CreateVmRequest |-> CreateVmRequest, CreatedVm |-> CreatedVm, DirEntry |-> DirEntry,
   DirListing |-> DirListing, ErrorBody |-> ErrorBody, ExecRequest |-> ExecRequest,
   ExecResult |-> ExecResult, FileContent |-> FileContent, PolicyRequest |-> PolicyRequest,
   PortForward |-> PortForward, SignedPolicyDto |-> SignedPolicyDto, Stats |-> Stats,
   Template |-> Template, TemplateRequest |-> TemplateRequest, Vm |-> Vm,
   WriteFileRequest |-> WriteFileRequest, Written |-> Written]

BuilderOf ==
  [AddForwardRequest |-> AddForwardRequestBuilder, AgentInfo |-> AgentInfoBuilder,
   BuildRequest |-> BuildRequestBuilder, BuildStatus |-> BuildStatusBuilder,
   CreateVmRequest |-> CreateVmRequestBuilder, CreatedVm |-> CreatedVmBuilder,
   DirEntry |-> DirEntryBuilder, DirListing |-> DirListingBuilder,
   ErrorBody |-> ErrorBodyBuilder, ExecRequest |-> ExecRequestBuilder,
   ExecResult |-> ExecResultBuilder, FileContent |-> FileContentBuilder,
   PolicyRequest |-> PolicyRequestBuilder, PortForward |-> PortForwardBuilder,
   SignedPolicyDto |-> SignedPolicyDtoBuilder, Stats |-> StatsBuilder,
   Template |-> TemplateBuilder, TemplateRequest |-> TemplateRequestBuilder,
   Vm |-> VmBuilder, WriteFileRequest |-> WriteFileRequestBuilder,
   Written |-> WrittenBuilder]
=============================================================================
