---------------------------- MODULE NfaMessages ----------------------------
(***************************************************************************)
(* The data of the runtime's control plane: the protobuf messages a        *)
(* controller sends (nfa_msg.proto), the structures the RPC thread and the *)
(* worker thread exchange (nfa_rpc_server.h), the conversions between the  *)
(* two, and the std::map<int, Local_view> tables.                          *)
(***************************************************************************)
EXTENDS Integers, Sequences, FiniteSets

CONSTANTS
  WorkerIds,   \* the uint64 worker ids that occur in requests
  MyId,        \* ServerImpl::worker_id of this runtime (1 in main)
  IntRange,    \* how many values an int holds: 2^32 in the build
  MacLen,      \* bytes of a MAC address: 6 in the build
  ByteRange,   \* how many values a byte holds: 256 in the build
  RpcIps,      \* the rpc_ip texts that occur in requests: 29 characters at most
  LongIps,     \* those longer than 21: their end lies where rpc_port is
  RpcPorts,    \* the rpc_port values: below 2^56, so that a text ends in them
  Quotas,      \* the uint64 quotas that occur in requests
  None         \* no client, no message

ASSUME ConstantsAssumption ==
  /\ WorkerIds \subseteq Nat
  /\ IntRange \in Nat \ {0} /\ MyId \in 0 .. IntRange - 1
  /\ MacLen \in Nat /\ ByteRange \in Nat \ {0}
  /\ LongIps \subseteq RpcIps
  /\ Quotas \subseteq Nat /\ 0 \in Quotas

----------------------------------------------------------------------------
(* Integers.  An id is a uint64; the tables are keyed by int, and so are   *)
(* the ids of cluster_view_msg and recover_msg.  A negative int is written *)
(* as the unsigned value with the same bits.                               *)

Key == 0 .. IntRange - 1

\* Faulty variant: the tables are keyed by the whole id.
ToIntWide(id) == id

ToInt(id) == id % IntRange

Byte == 0 .. ByteRange - 1

----------------------------------------------------------------------------
(* Views.  The three MAC addresses of a view go through the same functions *)
(* one by one; `mac' stands for each of them.  In a request a MAC is a     *)
(* text: MacText is the bytes that sscanf can read from it, all of them    *)
(* when the text is well formed and fewer when it is not.                  *)

Mac == [1 .. MacLen -> Byte]

MacText == UNION {[1 .. n -> Byte] : n \in 0 .. MacLen}

View == [worker_id : WorkerIds, mac : MacText, rpc_ip : RpcIps, rpc_port : RpcPorts]

\* The text that rpc_ip[20] of a Local_view is read back as: one of a request,
\* or the first 22 characters of a long one and then the bytes of rpc_port.
StoredIp == RpcIps \cup (LongIps \X RpcPorts)

Local_view == [worker_id : WorkerIds, mac : Mac, rpc_ip : StoredIp, rpc_port : RpcPorts]

\* A View made of a Local_view.
AnsweredView ==
  [worker_id : WorkerIds, mac : MacText, rpc_ip : StoredIp, rpc_port : RpcPorts]

\* sscanf stores the bytes it could read and leaves the others alone; the
\* -EINVAL for an incomplete text is ignored by every caller.
parse_mac_addr(addr, str) ==
  [i \in 1 .. MacLen |-> IF i \in DOMAIN str THEN str[i] ELSE addr[i]]

\* sprintf is given the addresses addr, addr+1, ... and prints their low
\* bytes, not the bytes stored there.
encode_mac_addr(addr) == [i \in 1 .. MacLen |-> (addr + (i - 1)) % ByteRange]

\* The unbounded strcpy fills rpc_ip, two bytes of padding and rpc_port,
\* which is written next and takes the place of the text's end.
parse_ip_addr(str, port) == IF str \in LongIps THEN <<str, port>> ELSE str

\* Faulty variant: the port is written first, the end of a long text over it.
view_rpc2local_port_first(old, source) ==
  [worker_id |-> source.worker_id,
   mac       |-> parse_mac_addr(old, source.mac),
   rpc_ip    |-> source.rpc_ip,
   rpc_port  |-> IF source.rpc_ip \in LongIps
                 THEN CHOOSE p \in RpcPorts : p # source.rpc_port ELSE source.rpc_port]

view_rpc2local(old, source) ==
  [worker_id |-> source.worker_id,
   mac       |-> parse_mac_addr(old, source.mac),
   rpc_ip    |-> parse_ip_addr(source.rpc_ip, source.rpc_port),
   rpc_port  |-> source.rpc_port]

\* addr is where the caller's copy of the Local_view lies on the stack.
view_local2rpc(addr, local_view) ==
  [worker_id |-> local_view.worker_id,
   mac       |-> encode_mac_addr(addr),
   rpc_ip    |-> local_view.rpc_ip,
   rpc_port  |-> local_view.rpc_port]

----------------------------------------------------------------------------
(* The std::map<int, Local_view> tables: a function from the keys present. *)

Dirs == {"input", "output"}

IsViewMap(f) == DOMAIN f \subseteq Key /\ f \in [DOMAIN f -> Local_view]

EmptyMap == [k \in {} |-> None]

\* std::map::insert keeps the entry that is already there.
MapInsert(f, k, v) ==
  [x \in DOMAIN f \cup {k} |-> IF x \in DOMAIN f THEN f[x] ELSE v]

\* Faulty variant: erase(it, end()).
MapEraseFrom(f, k) == [x \in {y \in DOMAIN f : y < k} |-> f[x]]

MapErase(f, k) == [x \in DOMAIN f \ {k} |-> f[x]]

\* The repeated View of an answer: every entry of a table, encoded.
Encoded(addr, f) == {view_local2rpc(addr, f[k]) : k \in DOMAIN f}

Keys(ids) == {ToInt(ids[i]) : i \in DOMAIN ids}

----------------------------------------------------------------------------
(* Requests.  The requests that carry a list (ViewList, ReplicaList) have  *)
(* one item per element; MigrationTarget, RecoverRuntime and the two       *)
(* queries have exactly one item, LivenessRequest none.  Of the views a    *)
(* target or a replica comes with, only the worker ids are ever used.      *)

AddMethod == [d \in Dirs |-> IF d = "input" THEN "AddInputView" ELSE "AddOutputView"]

DeleteMethod ==
  [d \in Dirs |-> IF d = "input" THEN "DeleteInputView" ELSE "DeleteOutputView"]

ViewMethods == {AddMethod[d] : d \in Dirs} \cup {DeleteMethod[d] : d \in Dirs}

QueryMethods == {"QueryRuntimeInfo", "QueryRuntimeStat"}

ReplicaMethods == {"AddReplicas", "DeleteReplicas", "Recover"}

Methods ==
  {"LivenessCheck", "SetMigrationTarget"} \cup ViewMethods \cup ReplicaMethods
    \cup QueryMethods

Item == [view : View, inputs : Seq(WorkerIds), outputs : Seq(WorkerIds)]

Request == [method : Methods, items : Seq(Item), quota : Quotas]

\* What a call record holds while no call is under way.
NoRequest == [method |-> "LivenessCheck", items |-> <<>>, quota |-> 0]

----------------------------------------------------------------------------
(* Answers.  One record for all reply messages: `succeed' stands for       *)
(* succeed, ack and LivenessReply.reply.                                   *)

Reasons == {"", "myself", "not the target", "exists", "does not exist",
            "size", "input contents", "output contents"}

Answer == [succeed : BOOLEAN, fail_reason : Reasons, quota : Quotas,
           views : [Dirs -> SUBSET AnsweredView], replicas : SUBSET AnsweredView]

\* A default-constructed reply message.
NoAnswer == [succeed |-> FALSE, fail_reason |-> "", quota |-> 0,
             views |-> [d \in Dirs |-> {}], replicas |-> {}]

----------------------------------------------------------------------------
(* Ring messages.  request_msg is an action code and a union of            *)
(* structures; the two map pointers of a migration or replica message are  *)
(* `inputs' and `outputs', the keys of the maps they point to.  `from' is  *)
(* not in the code: it names the thread whose stack the pointers point     *)
(* into and that waits for the reply.                                      *)

RequestMsg(T) ==
  [action : Methods, worker_id : Nat, inputs : SUBSET Key, outputs : SUBSET Key,
   quota : Key, from : T]

ReplyMsg(T) == [tag : Methods, worker_id : Key \cup {None}, reply : BOOLEAN, from : T]

\* A request_msg with only the action and the id filled in.
IdMsg(action, id, t) ==
  [action |-> action, worker_id |-> id, inputs |-> {}, outputs |-> {},
   quota |-> 0, from |-> t]

\* Recover writes the union through set_recover_msg_ and reads it through
\* change_replica_msg_: the low half is the int that was written, the high
\* half whatever the stack held.
UnionAsUint64(runtime_id, high) == runtime_id + IntRange * high
============================================================================
