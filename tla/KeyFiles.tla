------------------------------ MODULE KeyFiles ------------------------------
(***************************************************************************)
(* The keys and certificates the services keep on disk, each made on first *)
(* use by the process that needs it: iso-cad its egress CA (Ca in iso-ca), *)
(* iso-controld, or isoctl before it, the admin CA and the server         *)
(* identity (AdminPki), iso-fleetd its policy signing key.  A file is      *)
(* written by several system calls and a pair by two files; a process may  *)
(* die between any two of them and is started again.  A key is a number, a *)
(* certificate names the key it certifies and the key that signed it.      *)
(***************************************************************************)
EXTENDS Naturals, Sequences

CONSTANTS
  None,
  Names,     \* host names an operator may want on the server certificate
  MaxKeys,   \* keys generated
  Alone      \* isoctl admin is not run while iso-controld loads its identity

VARIABLES
  file,     \* content of each file; None while there is no such file
  dir,      \* the processes of the directory followed; no two directories meet
  run,      \* each process: where it is, system calls to make, pairs it loaded
  sans,     \* the names for the server certificate, at iso-controld's last start
  keys,     \* keys generated so far
  pinned,   \* history: the trust roots that others have been given
  taken     \* history: a name was taken back while the server's pair was in pieces

vars == <<file, dir, run, sans, keys, pinned, taken>>

Files == {"mitm.crt", "mitm.key", "ca.crt", "ca.key", "server.crt", "server.key",
          "sign.pub", "sign.key"}
Roots == {"mitm.crt", "ca.crt", "sign.pub"}
Admins == {"controld", "isoctl"}
Procs == Admins \cup {"cad", "fleetd"}

Pem(key, names, by) == [key |-> key, names |-> names, by |-> by]
Torn == Pem(0, {}, 0)        \* created, nothing written
Key(k) == Pem(k, {}, 0)
Cert(k, names, by) == Pem(k, names, by)

Exists(f) == file[f] # None
Reads(f) == Exists(f) /\ file[f] # Torn
Off == [pc |-> "off", todo |-> <<>>, held |-> {}]
At(p, pc) == p \in dir /\ run[p].pc = pc /\ run[p].todo = <<>>

Init ==
  /\ run = [p \in Procs |-> Off] /\ sans = {} /\ taken = FALSE
  /\ dir \in {{"cad"}, Admins, {"fleetd"}}
  /\ \/ file = [f \in Files |-> None] /\ keys = 0 /\ pinned = [f \in Roots |-> None]
     \/ /\ dir = Admins
        /\ file = [f \in Files |->
             CASE f = "ca.crt" -> Cert(1, {}, 1)
               [] f = "server.crt" -> Cert(2, Names, 1)
               [] f = "server.key" -> Key(2)
               [] OTHER -> None]      \* an identity issued elsewhere
        /\ keys = 2
        /\ pinned = [f \in Roots |-> IF f = "ca.crt" THEN file[f] ELSE None]

-----------------------------------------------------------------------------
(* The system calls.  A write into a file somebody unlinked since goes to  *)
(* an inode without a name.                                                *)

Sys(op, f, with, by) == [op |-> op, file |-> f, with |-> with, by |-> by]

\* std::fs::write
FsWrite(f, with) == <<Sys("truncate", f, Torn, "any"), Sys("write", f, with, "any")>>

\* write_private
WritePrivate(f, with) ==
  <<Sys("unlink", f, None, "any"), Sys("create_new", f, Torn, "any"),
    Sys("write", f, with, "creator")>>

Refused(call) == call.op = "create_new" /\ Exists(call.file)

SysCall(p) ==
  /\ run[p].todo # <<>>
  /\ LET call == Head(run[p].todo)
         lands == \/ call.op # "write"
                  \/ Exists(call.file) /\ (call.by = "creator" => file[call.file] = Torn)
     IN  IF Refused(call)
         THEN run' = [run EXCEPT ![p] = [Off EXCEPT !.pc = "failed"]] /\ UNCHANGED file
         ELSE /\ file' = IF lands THEN [file EXCEPT ![call.file] = call.with] ELSE file
              /\ run' = [run EXCEPT ![p].todo = Tail(@)]
  /\ UNCHANGED <<dir, sans, keys, pinned, taken>>

Goes(p, pc, todo, held) ==
  run' = [run EXCEPT ![p] = [pc |-> pc, todo |-> todo, held |-> run[p].held \cup held]]
Fails(p) == Goes(p, "failed", <<>>, {})

Pin(roots) == [f \in Roots |-> IF f \in roots THEN file[f] ELSE pinned[f]]

-----------------------------------------------------------------------------
(* iso-cad: Ca::load_or_generate and from_pem.  generate() makes the key.  *)

CadStart ==
  /\ At("cad", "off")
  /\ IF Exists("mitm.crt") /\ Exists("mitm.key")
     THEN Goes("cad", "load", <<>>, {}) /\ UNCHANGED keys
     ELSE /\ keys < MaxKeys /\ keys' = keys + 1
          /\ Goes("cad", "load",
                  FsWrite("mitm.crt", Cert(keys', {}, keys')) \o
                  WritePrivate("mitm.key", Key(keys')), {})
  /\ UNCHANGED <<file, dir, sans, pinned, taken>>

CadLoad ==
  /\ At("cad", "load")
  /\ IF Reads("mitm.crt") /\ Reads("mitm.key")
     THEN /\ Goes("cad", "up", <<>>, {<<file["mitm.crt"], file["mitm.key"]>>})
          /\ pinned' = Pin({"mitm.crt"})
     ELSE Fails("cad") /\ UNCHANGED pinned
  /\ UNCHANGED <<file, dir, sans, keys, taken>>

-----------------------------------------------------------------------------
(* AdminPki::load_or_generate, by iso-controld with the names configured   *)
(* and by isoctl with none.                                                *)

Wanted(p) == IF p = "controld" THEN sans ELSE {}

WriteCaCertFirst(k) == FsWrite("ca.crt", Cert(k, {}, k)) \o WritePrivate("ca.key", Key(k))
WriteCa(k) == WritePrivate("ca.key", Key(k)) \o FsWrite("ca.crt", Cert(k, {}, k))

WriteServerCertFirst(k, names, by) ==
  FsWrite("server.crt", Cert(k, names, by)) \o WritePrivate("server.key", Key(k))
WriteServer(k, names, by) ==
  WritePrivate("server.key", Key(k)) \o FsWrite("server.crt", Cert(k, names, by))

\* The certificate is here and its key is not: load_issued_elsewhere.
NeverElsewhere == FALSE
IssuedElsewhere == Exists("ca.crt") /\ ~Exists("ca.key")
NeedsCa == ~Exists("ca.crt") \/ (~Exists("ca.key") /\ ~IssuedElsewhere)

AdminStart(p) ==
  /\ At(p, "off")
  /\ Alone => \A q \in Admins \ {p} : run[q].pc \in {"off", "up", "failed"}
  /\ \/ /\ IssuedElsewhere /\ UNCHANGED keys
        /\ IF Exists("server.crt") /\ Exists("server.key")
           THEN Goes(p, "serve", <<>>, {}) ELSE Fails(p)
     \/ /\ NeedsCa /\ keys < MaxKeys /\ keys' = keys + 1
        /\ Goes(p, "ca", WriteCa(keys'), {})
     \/ ~IssuedElsewhere /\ ~NeedsCa /\ UNCHANGED keys /\ Goes(p, "ca", <<>>, {})
  /\ UNCHANGED <<file, dir, sans, pinned, taken>>

\* sans_covered: a certificate that does not parse covers nothing.
Stale(p) == ~Reads("server.crt") \/ ~(Wanted(p) \subseteq file["server.crt"].names)

AdminLoad(p) ==
  /\ At(p, "ca")
  /\ IF ~(Reads("ca.crt") /\ Reads("ca.key"))
     THEN Fails(p) /\ UNCHANGED <<keys, pinned, taken>>
     ELSE LET ca == {<<file["ca.crt"], file["ca.key"]>>} IN
          /\ pinned' = Pin({"ca.crt"})
          /\ IF Stale(p) \/ ~Exists("server.key")
             THEN /\ keys < MaxKeys /\ keys' = keys + 1
                  /\ Goes(p, "serve",
                          WriteServer(keys', Wanted(p), file["ca.key"].key), ca)
             ELSE UNCHANGED keys /\ Goes(p, "serve", <<>>, ca)
  /\ UNCHANGED <<file, dir, sans, taken>>

Matching(crt, key) == Reads(crt) /\ Reads(key) /\ file[crt].key = file[key].key

\* tls::acceptor reads the identity back, and rustls may refuse two files that are
\* no pair; isoctl has no use for them and exits.
Serve(p) ==
  /\ At(p, "serve")
  /\ IF p = "isoctl" THEN run' = [run EXCEPT ![p] = Off]
     ELSE \/ /\ Reads("server.crt") /\ Reads("server.key")
             /\ Goes(p, "up", <<>>, {<<file["server.crt"], file["server.key"]>>})
          \/ ~Matching("server.crt", "server.key") /\ Fails(p)
  /\ UNCHANGED <<file, dir, sans, keys, pinned, taken>>

-----------------------------------------------------------------------------
(* iso-fleetd: load_or_generate_signer.  The public key is what the proxy  *)
(* tier is configured with.                                                *)

SignerStart ==
  /\ At("fleetd", "off")
  /\ IF Exists("sign.key")
     THEN /\ UNCHANGED keys
          /\ IF ~Reads("sign.key") THEN Fails("fleetd")
             ELSE Goes("fleetd", "signer",
                       IF Exists("sign.pub") THEN <<>>
                       ELSE FsWrite("sign.pub", Key(file["sign.key"].key)), {})
     ELSE /\ keys < MaxKeys /\ keys' = keys + 1
          /\ Goes("fleetd", "signer",
                  Tail(WritePrivate("sign.key", Key(keys'))) \o
                  FsWrite("sign.pub", Key(keys')), {})
  /\ UNCHANGED <<file, dir, sans, pinned, taken>>

SignerUp ==
  /\ At("fleetd", "signer")
  /\ Goes("fleetd", "up", <<>>, {<<file["sign.pub"], file["sign.key"]>>})
  /\ pinned' = Pin({"sign.pub"})
  /\ UNCHANGED <<file, dir, sans, keys, taken>>

-----------------------------------------------------------------------------
(* A process dies anywhere, or is stopped.  iso-controld works the names   *)
(* out at each start (server_sans): its addresses, its host name and what  *)
(* the operator adds.                                                      *)

Crash(p) ==
  /\ run[p].pc # "off"
  /\ run' = [run EXCEPT ![p] = Off]
  /\ UNCHANGED <<file, dir, sans, keys, pinned, taken>>

Configure(names) ==
  /\ At("controld", "off") /\ sans # names
  /\ sans' = names
  /\ taken' = (~Matching("server.crt", "server.key") /\ (taken \/ ~(sans \subseteq names)))
  /\ UNCHANGED <<file, dir, run, keys, pinned>>

Next ==
  \/ CadStart \/ CadLoad \/ SignerStart \/ SignerUp
  \/ \E p \in Admins : AdminStart(p) \/ AdminLoad(p) \/ Serve(p)
  \/ \E p \in Procs : SysCall(p) \/ Crash(p)
  \/ \E names \in SUBSET Names : Configure(names)

Spec == Init /\ [][Next]_vars

-----------------------------------------------------------------------------
(* Whatever a process loads, and serves with, is a pair: the certificate   *)
(* certifies the key beside it, however often the process died between the *)
(* two files before.  A reissue that died there is seen by the names the   *)
(* old certificate lacks; only where they have gone away again since is    *)
(* the new key taken for the old certificate's.  (A public key file left   *)
(* torn is the exception NotStranded speaks of.)                           *)
PairsMatch ==
  \A p \in Procs : \A pair \in run[p].held :
    pair[1] # Torn /\ ~(taken /\ pair[1] = file["server.crt"]) => pair[1].key = pair[2].key

(* Dying between two files strands nobody: a start fails only over a file  *)
(* that was created and never written, within one write, or over the pair  *)
(* PairsMatch excepts.                                                     *)
NotStranded ==
  \A p \in Procs : run[p].pc = "failed" =>
    \/ \E f \in Files : file[f] = Torn
    \/ taken /\ ~Matching("server.crt", "server.key")

(* A trust root others were given (the guests' CA, the CA clients pin, the *)
(* public key the proxy tier is configured with) is never replaced by a    *)
(* restart; above all not on a host whose identity was issued elsewhere.   *)
RootKept ==
  \A f \in Roots : pinned[f] # None => file[f] = pinned[f]
=============================================================================
