---------------------------- MODULE LinkerStore -----------------------------
(***************************************************************************)
(* What CDownDataRestorerRedis (gb/gb_down_linker) keeps in Redis: one key *)
(* per entity, "{kind}:<linker>:<ids>", and no set of ids: a manager finds *)
(* its keys with KEYS <prefix>*.  The application queues operations, the   *)
(* worker hands each to the manager of its entity.  The process may stop   *)
(* at any time; the next one calls PrepareLoadData before it loads, as     *)
(* test_redisclient.cpp does.  When the worker runs at all is the subject  *)
(* of LinkerRestorer.                                                      *)
(***************************************************************************)
EXTENDS Integers, Sequences, FiniteSets, SequencesExt

CONSTANTS Linker,           \* gbDownlinkerDeviceId
          Devices, Channels,
          Workers,          \* worker thread indexes, as text
          Index(_),         \* the number such a text denotes: atoi
          Starts,           \* pairs <<a, b>> of different ids: the text b starts with the text a
          ThreadNumbers,    \* values of worker_thread_number
          MaxOps, MaxFaults

None == "none"

VARIABLES stored,   \* the server: the number of the operation that wrote a key, 0: no such key
          meant,    \* the same if every manager had touched the keys of its operation only
          queue,    \* operationQueue_
          loader,   \* PrepareLoadData: its step and what it has listed
          ops, faults

vars == <<stored, meant, queue, loader, ops, faults>>

DeviceKey(d) == <<"device", Linker, d>>
ChannelKey(d, c) == <<"channel", Linker, d, c>>
InviteKey(w, c) == <<"invite", Linker, w, c>>     \* sender and sequence number are left out

Keys == {DeviceKey(d) : d \in Devices} \cup {ChannelKey(d, c) : d \in Devices, c \in Channels}
            \cup {InviteKey(w, c) : w \in Workers, c \in Channels}

\* KEYS prefix*: whole parts, but the last one may go on
Matches(prefix, key) ==
    /\ Len(prefix) <= Len(key) /\ IsPrefix(Front(prefix), key)
    /\ Last(prefix) = key[Len(prefix)] \/ <<Last(prefix), key[Len(prefix)]>> \in Starts

getKeys(prefix) == {k \in Keys : stored[k] # 0 /\ Matches(prefix, k)}

GetDeviceKeyList == getKeys(<<"device", Linker>>)
GetChannelKeyList == getKeys(<<"channel", Linker>>)
GetChannelKeyListByDeviceId(d) == getKeys(<<"channel", Linker, d>>)
GetInviteKeyList == getKeys(<<"invite", Linker>>)
GetInviteKeyListOfWorker(w) == getKeys(<<"invite", Linker, w>>)

-----------------------------------------------------------------------------
(* Operations, as the application queues them *)

Operation(type, entity, device, channel, worker) ==
    [type |-> type, entity |-> entity, device |-> device, channel |-> channel, worker |-> worker]

InsertDeviceList(d) == Operation("INSERT", "device", d, None, None)
DeleteDeviceList(d) == Operation("DELETE", "device", d, None, None)
DeleteAllDevices == Operation("CLEAR", "device", None, None, None)
InsertChannelList(d, c) == Operation("INSERT", "channel", d, c, None)
DeleteChannelListOfDevice(d) == Operation("DELETE_CHANNEL_BY_DEVICE_ID", "channel", d, None, None)
DeleteChannelList(d, c) == Operation("DELETE_CHANNEL_BY_ID", "channel", d, c, None)
DeleteAllChannels == Operation("CLEAR", "channel", None, None, None)
InsertExecutingInviteCmdList(w, c) == Operation("INSERT", "invite", None, c, w)
DeleteExecutingInviteCmdList(w, c) == Operation("DELETE", "invite", None, c, w)
DeleteInvitesOfWorker(w) == Operation("CLEAR", "invite", None, None, w)

Operations ==
    {InsertDeviceList(d) : d \in Devices} \cup {DeleteDeviceList(d) : d \in Devices}
    \cup {InsertChannelList(d, c) : d \in Devices, c \in Channels}
    \cup {DeleteChannelList(d, c) : d \in Devices, c \in Channels}
    \cup {DeleteChannelListOfDevice(d) : d \in Devices}
    \cup {InsertExecutingInviteCmdList(w, c) : w \in Workers, c \in Channels}
    \cup {DeleteExecutingInviteCmdList(w, c) : w \in Workers, c \in Channels}
    \cup {DeleteInvitesOfWorker(w) : w \in Workers} \cup {DeleteAllDevices, DeleteAllChannels}

KeyOf(op) == CASE op.entity = "device" -> DeviceKey(op.device)
               [] op.entity = "channel" -> ChannelKey(op.device, op.channel)
               [] OTHER -> InviteKey(op.worker, op.channel)

\* Wrong on purpose: a device's channels are all channels
TouchedAllChannels(op) ==
    CASE op.type \in {"INSERT", "DELETE", "DELETE_CHANNEL_BY_ID"} -> {KeyOf(op)}
      [] op.type = "DELETE_CHANNEL_BY_DEVICE_ID" -> GetChannelKeyList
      [] OTHER -> CASE op.entity = "device" -> GetDeviceKeyList [] op.entity = "channel" -> GetChannelKeyList
                    [] OTHER -> GetInviteKeyListOfWorker(op.worker)

\* The keys DataRestorerThreadFunc has the managers write or delete
Touched(op) ==
    CASE op.type \in {"INSERT", "DELETE", "DELETE_CHANNEL_BY_ID"} -> {KeyOf(op)}
      [] op.type = "DELETE_CHANNEL_BY_DEVICE_ID" -> GetChannelKeyListByDeviceId(op.device)
      [] OTHER -> CASE op.entity = "device" -> GetDeviceKeyList [] op.entity = "channel" -> GetChannelKeyList
                    [] OTHER -> GetInviteKeyListOfWorker(op.worker)

\* The keys the operation is about
About(op) ==
    {k \in Keys : /\ k[1] = op.entity
                  /\ op.device # None => k[3] = op.device
                  /\ op.worker # None => k[3] = op.worker
                  /\ op.channel # None => k[4] = op.channel}

-----------------------------------------------------------------------------
Idle == [step |-> "idle", number |-> 0, devices |-> {}, channels |-> {}, invites |-> {}, failed |-> FALSE, kept |-> {}]

\* What an earlier process has left: nothing, or one of every key
Init == /\ stored \in {[k \in Keys |-> 0], [k \in Keys |-> 1]}
        /\ meant = stored
        /\ queue = <<>> /\ loader = [Idle EXCEPT !.step = "new"] /\ ops = 1 /\ faults = 0

\* The application's thread queues an operation (the entity is copied)
Push == /\ loader.step = "idle" /\ ops < MaxOps /\ ops' = ops + 1
        /\ \E op \in Operations : queue' = Append(queue, op)
        /\ UNCHANGED <<stored, meant, loader, faults>>

Written(map, op, keys, n) ==
    [k \in Keys |-> IF k \in keys THEN (IF op.type = "INSERT" THEN n ELSE 0) ELSE map[k]]

\* The worker hands the first operation to its manager.  A command that fails (KEYS, SET,
\* or the DEL of one of the keys) is not repeated: the managers' results are ignored.
Process ==
    /\ loader.step = "idle" /\ queue # <<>>
    /\ LET op == Head(queue) hit == Touched(op) IN
         \E done \in {hit} \cup (IF faults = MaxFaults THEN {} ELSE {{}} \cup {hit \ {k} : k \in hit}) :
            /\ stored' = Written(stored, op, done, ops)
            /\ meant' = Written(meant, op, About(op) \ (hit \ done), ops)
            /\ faults' = IF done = hit THEN faults ELSE faults + 1
    /\ queue' = Tail(queue)
    /\ UNCHANGED <<loader, ops>>

\* The process ends, by Stop or a crash: what is queued is gone, what is stored stays
Restart == /\ loader.step = "idle" /\ ops < MaxOps
           /\ queue' = <<>> /\ loader' = [Idle EXCEPT !.step = "new"]
           /\ meant' = stored
           /\ UNCHANGED <<stored, ops, faults>>

\* A list of keys as the caller gets it: empty if the command fails
Lists(keys) == {keys} \cup (IF faults < MaxFaults THEN {{}} ELSE {})
Count(keys, list) == faults' = IF list = keys THEN faults ELSE faults + 1

PrepareListDevices ==
    /\ loader.step = "new"
    /\ \E n \in ThreadNumbers, devices \in Lists(GetDeviceKeyList) :
         /\ Count(GetDeviceKeyList, devices)
         /\ loader' = [loader EXCEPT !.step = "channels", !.number = n, !.devices = {k[3] : k \in devices},
                                     !.failed = devices # GetDeviceKeyList,
                                     !.kept = {k \in Keys : stored[k] # 0}]
    /\ UNCHANGED <<stored, meant, queue, ops>>

Del(keys) == stored' = [k \in Keys |-> IF k \in keys THEN 0 ELSE stored[k]]

\* ParseChannelKey and CompareChannelDeviceId: channels whose device is not listed
OrphanChannels(list) == {k \in list : k[3] \notin loader.devices}

PrepareDeleteChannels ==
    /\ loader.step = "channels"
    /\ \E list \in Lists(GetChannelKeyList) :
         /\ Count(GetChannelKeyList, list)
         /\ Del(OrphanChannels(list))
         /\ loader' = [loader EXCEPT !.step = "invites", !.channels = {k[4] : k \in list \ OrphanChannels(list)},
                                     !.failed = @ \/ list # GetChannelKeyList]
    /\ UNCHANGED <<meant, queue, ops>>

\* ParseInviteKey: invites of a worker that does not exist any more, or of no stored channel
LostInvites(list) ==
    {k \in list : Index(k[3]) >= loader.number \/ k[4] \notin loader.channels}

PrepareDeleteInvites ==
    /\ loader.step = "invites"
    /\ \E list \in Lists(GetInviteKeyList) :
         /\ Count(GetInviteKeyList, list)
         /\ Del(LostInvites(list))
         /\ loader' = [loader EXCEPT !.step = "prepared", !.invites = list, !.failed = @ \/ list # GetInviteKeyList]
    /\ UNCHANGED <<meant, queue, ops>>

LoadInvite(w) == GetInviteKeyListOfWorker(w)

\* The application loads what is stored, and goes on from there
Load == /\ loader.step = "prepared" /\ loader' = Idle /\ meant' = stored
        /\ UNCHANGED <<stored, queue, ops, faults>>

Done == loader.step = "idle" /\ queue = <<>> /\ ops = MaxOps /\ UNCHANGED vars

Next == \/ Push \/ Process \/ Restart \/ Load \/ Done
        \/ PrepareListDevices \/ PrepareDeleteChannels \/ PrepareDeleteInvites

Spec == Init /\ [][Next]_vars

-----------------------------------------------------------------------------
\* Keys of an id whose text goes on where another id ends: worker 10 beside worker 1
Shadowed(k) == Len(k) > 3 /\ \E p \in Starts : p[2] = k[3]

\* The store is what the processed operations ask for, each on its own keys and in their
\* order.  Only a key whose id begins with the text of another id may be lost: the managers
\* look for keys by prefix, so deleting the invites of worker 1 deletes those of worker 10.
StoredAsMeant ==
    loader.step = "idle" => \A k \in Keys : stored[k] # meant[k] => stored[k] = 0 /\ Shadowed(k)

\* After a PrepareLoadData whose lists were all read, what is loaded fits together: the
\* device of every channel is stored, an invite belongs to a running worker thread and to a
\* stored channel - whatever prefix of its operations the process before had written.
LoadedFitsTogether ==
    loader.step = "prepared" /\ ~loader.failed =>
        /\ \A k \in GetChannelKeyList : stored[DeviceKey(k[3])] # 0
        /\ \A k \in GetInviteKeyList : /\ Index(k[3]) < loader.number
                                       /\ \E d \in Devices : stored[ChannelKey(d, k[4])] # 0

\* PrepareLoadData deletes nothing that fits together - unless a KEYS command failed: an
\* unread list of devices is taken for an empty one, and every channel is deleted.
PrepareKeepsTheRest ==
    loader.step = "prepared" /\ ~loader.failed =>
        \A k \in loader.kept : stored[k] = 0 =>
            CASE k[1] = "channel" -> DeviceKey(k[3]) \notin loader.kept
              [] k[1] = "invite" -> \/ Index(k[3]) >= loader.number
                                    \/ \A d \in Devices : DeviceKey(d) \in loader.kept
                                                             => ChannelKey(d, k[4]) \notin loader.kept
              [] OTHER -> FALSE

\* The worker threads between them load every stored invite, and no invite is loaded by two
\* of them but one whose worker index begins with another index.
EachInviteLoadedOnce ==
    loader.step = "prepared" =>
        \A k \in GetInviteKeyList :
            LET loaders == {w \in Workers : k \in LoadInvite(w)} IN
            k[3] \in loaders /\ (Cardinality(loaders) > 1 => Shadowed(k))
=============================================================================
