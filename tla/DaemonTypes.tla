---------------------------- MODULE DaemonTypes ----------------------------
(* The same types as the daemon declares them: the DTOs of iso-controld's      *)
(* http.rs and build.rs and the guest protocol's types they carry.  A request  *)
(* needs the fields without #[serde(default)]; an answer always carries the    *)
(* fields that are not an Option.  The daemon counts in unsigned integers where*)
(* the client has signed ones.                                                 *)

None == [x \in {} |-> x]

Shape(needs, may, ints, nested) ==
  [needs |-> needs, may |-> may, ints |-> ints, nested |-> nested]

PortForward == Shape(
  {"vm_port", "proto"}, {"host_port"}, [host_port |-> "u16", vm_port |-> "u16"], None)

SignedPolicyDto == Shape({"claims", "sig"}, {}, None, None)

\* A field added without a default.
CreateVmRequestNoDefault == Shape({"template", "lifecycle"}, {"id"}, None, None)
CreateVmRequest == Shape(
  {"template"},
  {"id", "egress", "ingress", "labels", "lifecycle", "restart", "vcpus", "mem_mib",
   "principal", "allow", "rules", "signed"},
  [vcpus |-> "u32", mem_mib |-> "u32"],
  [ingress |-> "PortForward", signed |-> "SignedPolicyDto"])

CreatedVm == Shape({"id"}, {}, None, None)

AddForwardRequest == Shape({"vm_port"}, {"proto"}, [vm_port |-> "u16"], None)

Vm == Shape(
  {"id", "template", "state", "egress", "lifecycle", "restart", "labels", "ingress",
   "allow", "rules", "policy_gen"},
  {"slot", "tap", "rootfs_device", "principal", "signed"},
  [slot |-> "u16", policy_gen |-> "u64"],
  [ingress |-> "PortForward", signed |-> "SignedPolicyDto"])

PolicyRequest == Shape(
  {}, {"principal", "allow", "rules", "egress", "signed"}, None, [signed |-> "SignedPolicyDto"])

WriteFileRequest == Shape(
  {}, {"content", "content_b64", "mode", "mkdir"}, [mode |-> "u32"], None)

Written == Shape({"bytes"}, {}, [bytes |-> "u64"], None)

DirListing == Shape({"entries"}, {}, None, [entries |-> "DirEntry"])

Stats == Shape(
  {"data_percent", "metadata_percent", "slots_used", "slots_total", "vms"},
  {"storage_backend", "pool_capacity_bytes", "pool_used_bytes", "snapshot_bytes",
   "filesystem_capacity_bytes", "filesystem_available_bytes"},
  [pool_capacity_bytes |-> "u64", pool_used_bytes |-> "u64", snapshot_bytes |-> "u64",
   filesystem_capacity_bytes |-> "u64", filesystem_available_bytes |-> "u64",
   slots_used |-> "u64", slots_total |-> "u64", vms |-> "u64"],
  None)

TemplateRequest == Shape(
  {"name", "rootfs_template", "vcpus", "mem_mib", "kernel"},
  {"snapshot_mem", "snapshot_vmstate", "boot_args"},
  [vcpus |-> "u32", mem_mib |-> "u32"], None)

Template == Shape(
  {"name", "vcpus", "mem_mib", "warm"}, {}, [vcpus |-> "u32", mem_mib |-> "u32"], None)

ErrorBody == Shape({"error"}, {}, None, None)

\* The queries of the file operations and of the forward's removal.
PathQuery == Shape({"path"}, {"max_bytes", "recursive"}, [max_bytes |-> "u64"], None)

ProtoQuery == Shape({}, {"proto"}, None, None)

BuildRequest == Shape(
  {"name", "image"}, {"vcpus", "mem_mib", "size", "force"},
  [vcpus |-> "u32", mem_mib |-> "u32"], None)

BuildStatus == Shape(
  {"name", "image", "state", "started_at", "log_tail"}, {"finished_at", "error"},
  [started_at |-> "u64", finished_at |-> "u64"], None)

ExecRequest == Shape(
  {"cmd"}, {"args", "cwd", "env", "stdin", "timeout_ms", "max_output_bytes", "user"},
  [timeout_ms |-> "u64", max_output_bytes |-> "u64"], None)

ExecResult == Shape(
  {"stdout", "stderr", "timed_out", "truncated", "duration_ms"}, {"exit_code", "signal"},
  [exit_code |-> "i32", signal |-> "i32", duration_ms |-> "u64"], None)

AgentInfo == Shape(
  {"agent", "version", "hostname", "uid", "cwd"}, {}, [uid |-> "u32"], None)

FileContent == Shape(
  {"path", "size", "content_b64", "truncated"}, {}, [size |-> "u64"], None)

DirEntry == Shape(
  {"name", "kind", "size", "mode"}, {}, [size |-> "u64", mode |-> "u32"], None)

\* The types by name.
Dto ==
  [PortForward |-> PortForward, SignedPolicyDto |-> SignedPolicyDto,
   CreateVmRequest |-> CreateVmRequest, CreatedVm |-> CreatedVm,
   AddForwardRequest |-> AddForwardRequest, Vm |-> Vm, PolicyRequest |-> PolicyRequest,
   WriteFileRequest |-> WriteFileRequest, Written |-> Written, DirListing |-> DirListing,
   Stats |-> Stats, TemplateRequest |-> TemplateRequest, Template |-> Template,
   ErrorBody |-> ErrorBody, BuildRequest |-> BuildRequest, BuildStatus |-> BuildStatus,
   ExecRequest |-> ExecRequest, ExecResult |-> ExecResult, AgentInfo |-> AgentInfo,
   FileContent |-> FileContent, DirEntry |-> DirEntry]
=============================================================================
