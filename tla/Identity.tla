------------------------------ MODULE Identity ------------------------------
(***************************************************************************)
(* The key pair a node is known by, over starts and crashes.  The client   *)
(* keeps it in a file, which load_config opens, or creates and then        *)
(* writes; the write is carried out by another thread, and load_config     *)
(* does not wait for it.  The server keeps its key in a row of its         *)
(* database, which is inserted at once or not at all.                      *)
(***************************************************************************)
EXTENDS Naturals

CONSTANTS Clients,  \* processes of the client on one host
          Servers,  \* processes of the server on one database
          MaxKeys   \* bound: key pairs that are generated

ASSUME IdentityAssumption == MaxKeys \in Nat /\ Clients \cap Servers = {}

Procs == Clients \cup Servers

VARIABLES
  pc,       \* "off", "load", "create", "write", "insert", "up" or "failed"
  key,      \* the key pair a process uses, 0 for none
  pending,  \* the key a process is still writing, 0 for none
  exists,   \* the file exists
  file,     \* the key in the file, 0 while it is empty
  row,      \* the key in the database, 0 for no row
  generated,\* key pairs generated so far
  used,     \* history: what clients and servers have come up with
  cut,      \* history: a client was cut while its file was being written
  denied    \* history: a file that was there could not be opened

vars == <<pc, key, pending, exists, file, row, generated, used, cut, denied>>

Init ==
  /\ pc = [p \in Procs |-> "off"]
  /\ key = [p \in Procs |-> 0] /\ pending = [p \in Procs |-> 0]
  /\ exists = FALSE /\ file = 0 /\ row = 0 /\ generated = 0
  /\ used = [s \in {"client", "server"} |-> {}] /\ cut = FALSE /\ denied = FALSE

-----------------------------------------------------------------------------
To(p, s) == pc' = [pc EXCEPT ![p] = s]
Up(p, k, who) ==
  /\ To(p, "up")
  /\ key' = [key EXCEPT ![p] = k]
  /\ used' = [used EXCEPT ![who] = @ \cup {k}]

Start(p) ==
  /\ pc[p] \in {"off", "failed"}
  /\ To(p, "load")
  /\ UNCHANGED <<key, pending, exists, file, row, generated, used, cut, denied>>

\* What becomes of a client whose file does not parse: load_config returns the
\* error, and main ends.
Unparsed == "failed"

\* load_config opens the file; one that does not parse is an error, and one
\* that cannot be opened, for whatever reason, is made anew.
Load(p) ==
  /\ p \in Clients /\ pc[p] = "load"
  /\ \/ /\ exists /\ file # 0
        /\ Up(p, file, "client")
        /\ UNCHANGED denied
     \/ /\ exists /\ file = 0
        /\ To(p, Unparsed)
        /\ UNCHANGED <<key, used, denied>>
     \/ /\ To(p, "create")
        /\ denied' = (denied \/ exists)
        /\ UNCHANGED <<key, used>>
  /\ UNCHANGED <<pending, exists, file, row, generated, cut>>

\* File::create makes an empty file, or empties the one that is there.
Create(p) ==
  /\ pc[p] = "create"
  /\ exists' = TRUE /\ file' = 0
  /\ To(p, "write")
  /\ UNCHANGED <<key, pending, row, generated, used, cut, denied>>

\* What write_all hands to the thread.
Handed(k) == k

\* The key pair is generated, its write is handed to a thread, and the client
\* goes on with it.
Write(p) ==
  /\ pc[p] = "write" /\ generated < MaxKeys
  /\ generated' = generated + 1
  /\ pending' = [pending EXCEPT ![p] = Handed(generated')]
  /\ Up(p, generated', "client")
  /\ UNCHANGED <<exists, file, row, cut, denied>>

\* The thread writes.
Written(p) ==
  /\ pending[p] # 0
  /\ file' = pending[p]
  /\ pending' = [pending EXCEPT ![p] = 0]
  /\ UNCHANGED <<pc, key, exists, row, generated, used, cut, denied>>

\* VlinkServer::new looks for the row...
Find(p) ==
  /\ p \in Servers /\ pc[p] = "load"
  /\ \/ /\ row # 0
        /\ Up(p, row, "server")
     \/ /\ row = 0
        /\ To(p, "insert")
        /\ UNCHANGED <<key, used>>
  /\ UNCHANGED <<pending, exists, file, row, generated, cut, denied>>

\* Mutant: a row that is there is replaced.
Insert_Replace(p) ==
  /\ pc[p] = "insert" /\ generated < MaxKeys
  /\ generated' = generated + 1
  /\ row' = generated'
  /\ Up(p, generated', "server")
  /\ UNCHANGED <<pending, exists, file, cut, denied>>

\* ...and inserts one with a new key pair, which fails if there is one by now.
Insert(p) ==
  /\ pc[p] = "insert" /\ generated < MaxKeys
  /\ generated' = generated + 1
  /\ \/ /\ row = 0
        /\ row' = generated'
        /\ Up(p, generated', "server")
     \/ /\ row # 0
        /\ To(p, "failed")
        /\ UNCHANGED <<row, key, used>>
  /\ UNCHANGED <<pending, exists, file, cut, denied>>

\* A process stops at any point, and with it the thread that writes.
Crash(p) ==
  /\ pc[p] \notin {"off", "failed"}
  /\ To(p, "off")
  /\ key' = [key EXCEPT ![p] = 0]
  /\ pending' = [pending EXCEPT ![p] = 0]
  /\ cut' = (cut \/ pc[p] = "write" \/ pending[p] # 0)
  /\ UNCHANGED <<exists, file, row, generated, used, denied>>

Next == \E p \in Procs :
  Start(p) \/ Load(p) \/ Create(p) \/ Write(p) \/ Written(p) \/ Find(p) \/ Insert(p) \/ Crash(p)

Spec == Init /\ [][Next]_vars

-----------------------------------------------------------------------------
\* The states of the two kinds of process, and what the variables hold.
TypeOK ==
  /\ pc \in [Procs -> {"off", "load", "create", "write", "insert", "up", "failed"}]
  /\ key \in [Procs -> Nat] /\ pending \in [Procs -> Nat]
  /\ file \in Nat /\ row \in Nat /\ generated \in Nat
  /\ used \in [{"client", "server"} -> SUBSET Nat]
  /\ exists \in BOOLEAN /\ cut \in BOOLEAN /\ denied \in BOOLEAN
  /\ \A p \in Servers : pc[p] \notin {"create", "write"} /\ pending[p] = 0
  /\ \A p \in Clients : pc[p] # "insert"

Alone == \E c \in Clients : Clients = {c}

OneClientKey ==
  Alone => denied \/ \A j, k \in used["client"] : j = k

FailsOnlyWhenCut ==
  Alone => \A p \in Clients : pc[p] = "failed" => cut

OneServerKey == \A k \in used["server"] : k = row

\* A node keeps its key.  A client on its own comes up with a second one only
\* after it could not open its file: being cut while the file is empty does not
\* give it one, because then it does not come up at all, and it fails to start
\* for no other reason.  All servers of a database come up with one key, in
\* whatever order they look and insert, and it is in the database from then on.
KeysAreKept == OneClientKey /\ FailsOnlyWhenCut /\ OneServerKey

\* Why: an empty file is one that is being written, or was cut; and while no open
\* was refused, a file is made only when no key was used, holds the key that was
\* used or is about to.
ClientInv == Alone => \A c \in Clients :
  /\ pending[c] # 0 => pc[c] = "up"
  /\ exists /\ file = 0 => cut \/ pc[c] = "write" \/ pending[c] # 0
  /\ pc[c] = "failed" => cut
  /\ ~ denied =>
       /\ ~ exists => used["client"] = {} /\ file = 0
       /\ pc[c] = "create" => ~ exists
       /\ pc[c] = "write" => exists /\ used["client"] = {} /\ file = 0
       /\ pending[c] # 0 => used["client"] = {pending[c]}
       /\ file # 0 => used["client"] \subseteq {file}
       /\ \A j, k \in used["client"] : j = k

ServerInv == \A k \in used["server"] : k = row /\ row # 0

IndInv == TypeOK /\ ClientInv /\ ServerInv
=============================================================================
