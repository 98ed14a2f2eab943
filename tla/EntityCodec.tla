----------------------------- MODULE EntityCodec ----------------------------
(***************************************************************************)
(* From an entity to the bytes of its Redis value and back: the copy that  *)
(* the linker's operations queue keeps (data_restorer_operation.cpp), save *)
(* into a DBOutStream that doubles its buffer, load from a DBInStream      *)
(* (serialize_entity.cpp), and the same for the entities of                *)
(* downdatarestorer_norah.  Save and load are lists of fields in program   *)
(* order, written apart.  A stream is the sequence of what was written,    *)
(* each item with the field it came from: an item that is read into        *)
(* another field is Garbage, as its width and meaning may differ.          *)
(***************************************************************************)
EXTENDS Integers, Sequences, SequencesExt, Functions

CONSTANTS Block,        \* MAX_BLOCK_SIZE
          Sizes,        \* bytes an item may take
          MaxChannels   \* of a device

Null == "null"          \* of pointers
Default == "default"    \* of a field nobody has set
Garbage == "garbage"

VARIABLES entity,       \* what the application hands over
          step,         \* "copy", "save", "load", "done", "crashed"
          copy,         \* what is saved
          todo,         \* items to write, then fields to read
          out,          \* DBOutStream: items, m_cursor - m_data, m_capacity
          in            \* DBInStream: the position, m_loadError, and the entity that is loaded

vars == <<entity, step, copy, todo, out, in>>

-----------------------------------------------------------------------------
(* The fields, in the order save writes them; those of the same name in load *)

ChannelSaved == <<"deviceId", "channelDeviceId", "channelName", "channelManufacturer", "channelModel",
    "channelOwner", "channelCivilCode", "channelAddress", "channelParental", "channelParentId",
    "channelSafetyWay", "channelRegisterWay", "channelSecrecy", "channelStatus">>
ChannelLoaded == <<"deviceId", "channelDeviceId", "channelName", "channelManufacturer", "channelModel",
    "channelOwner", "channelCivilCode", "channelAddress", "channelParental", "channelParentId",
    "channelSafetyWay", "channelRegisterWay", "channelSecrecy", "channelStatus">>

TimeSaved == <<"tm_sec", "tm_min", "tm_hour", "tm_mday", "tm_mon", "tm_year", "tm_wday", "tm_yday", "tm_isdst">>
TimeLoaded == <<"tm_sec", "tm_min", "tm_hour", "tm_mday", "tm_mon", "tm_year", "tm_wday", "tm_yday", "tm_isdst">>

DeviceSaved == <<"deviceId", "deviceSipIp", "deviceSipPort", "viaIp", "viaPort", "domain", "deviceState",
    "deviceStateChangeTime", "registerExpires", "keepaliveExpires", "queryCatalogState", "queryCatalogSN",
    "queryCatalogNumber", "queryCatalogSipTid", "subscribeCatalogState", "subscribeCatalogSN",
    "subscribeCatalogNumber", "subscribeCatalogSipSid", "keepaliveTimerId", "channelList">>
DeviceLoaded == <<"deviceId", "deviceSipIp", "deviceSipPort", "viaIp", "viaPort", "domain", "deviceState",
    "deviceStateChangeTime", "registerExpires", "keepaliveExpires", "queryCatalogState", "queryCatalogSN",
    "queryCatalogNumber", "queryCatalogSipTid", "subscribeCatalogState", "subscribeCatalogSN",
    "subscribeCatalogNumber", "subscribeCatalogSipSid", "keepaliveTimerId", "channelList">>

\* What operationInfo holds for each command type, after the state
InfoSaved(type) ==
    CASE type = "LiveStream" -> <<"sessionIdStart", "streamProto", "recvStreamIp", "recvStreamPort", "playIp",
            "playPort", "playProto", "sessionIdStop">>
      [] type = "RecordPlayback" -> <<"sessionIdStart", "streamProto", "recvStreamIp", "recvStreamPort", "playTime",
            "endTime", "playIp", "playPort", "playProto", "playAction", "scale", "seekTime", "sipTidPlay",
            "sessionIdStop">>
      [] type = "RecordDownload" -> <<"sessionIdStart", "streamProto", "recvStreamIp", "recvStreamPort", "playTime",
            "endTime", "speed", "playIp", "playPort", "playProto", "sessionIdStop">>
      [] OTHER -> <<>>
InfoLoaded(type) ==
    CASE type = "LiveStream" -> <<"sessionIdStart", "streamProto", "recvStreamIp", "recvStreamPort", "playIp",
            "playPort", "playProto", "sessionIdStop">>
      [] type = "RecordPlayback" -> <<"sessionIdStart", "streamProto", "recvStreamIp", "recvStreamPort", "playTime",
            "endTime", "playIp", "playPort", "playProto", "playAction", "scale", "seekTime", "sipTidPlay",
            "sessionIdStop">>
      [] type = "RecordDownload" -> <<"sessionIdStart", "streamProto", "recvStreamIp", "recvStreamPort", "playTime",
            "endTime", "speed", "playIp", "playPort", "playProto", "sessionIdStop">>
      [] OTHER -> <<>>

InviteHead == <<"cmdSenderId", "deviceId", "cmdType", "cmdSeq", "state">>
InviteTail == <<"localDeviceId", "localSipIp", "deviceSipIp", "deviceSipPort", "deviceSipPort", "sipCid", "sipDid",
    "sipTidBye", "sipMsgCallIdNumber", "sipMsgFromTag", "sipMsgToTag", "sipMsgCseqNumber">>
InviteTailLoaded == <<"localDeviceId", "localSipIp", "deviceSipIp", "deviceSipPort", "deviceSipPort", "sipCid",
    "sipDid", "sipTidBye", "sipMsgCallIdNumber", "sipMsgFromTag", "sipMsgToTag", "sipMsgCseqNumber">>

\* The entities of downdatarestorer_norah
NorahSaved(kind) == CASE kind = "norah device" -> <<"device_id_", "device_sip_ip_", "device_sip_port_", "device_state_">>
                      [] kind = "norah channel" -> <<"device_id_", "device_sip_ip_", "device_sip_port_",
                                                     "channel_device_id_", "channel_name_">>
                      [] OTHER -> <<"cmd_sender_id_", "device_id_", "cmd_type", "cmd_seq_">>
NorahLoaded(kind) == CASE kind = "norah device" -> <<"device_id_", "device_sip_ip_", "device_sip_port_", "device_state_">>
                       [] kind = "norah channel" -> <<"device_id_", "device_sip_ip_", "device_sip_port_",
                                                      "channel_device_id_", "channel_name_">>
                       [] OTHER -> <<"cmd_sender_id_", "device_id_", "cmd_type", "cmd_seq_">>

-----------------------------------------------------------------------------
(* Entities.  Every field holds its own name; time and list of a device, command type of an    *)
(* invite, and whether there is an operationInfo, vary.  All items of an entity have one size. *)

LastTimes == <<"registerLastTime", "keepaliveLastTime">>

Entity(kind, names, type, info, null, channels, size) ==
    [kind |-> kind, f |-> [n \in Range(names) |-> n], type |-> type, info |-> info,
     null |-> null, list |-> channels, size |-> size]

Types == {"LiveStream", "RecordPlayback", "RecordDownload", "VoiceBroadcast"}

Entities ==
    {Entity("channel", ChannelSaved, Default, FALSE, TRUE, <<>>, n) : n \in Sizes}
    \cup {Entity("device", DeviceSaved \o LastTimes \o t, Default, FALSE, l = 0, [i \in 1 .. l - 1 |-> i], n) :
            t \in {<<>>, TimeSaved}, l \in 0 .. MaxChannels + 1, n \in Sizes}
    \cup {Entity("invite", InviteHead \o InfoSaved(t) \o InviteTail, t, i, TRUE, <<>>, n) :
            t \in Types, i \in BOOLEAN, n \in Sizes}
    \cup {Entity(k, NorahSaved(k), Default, FALSE, TRUE, <<>>, n) :
            k \in {"norah device", "norah channel", "norah invite"}, n \in Sizes}

HasTime(e) == "tm_sec" \in DOMAIN e.f

With(e, names, value) == [e EXCEPT !.f = [n \in DOMAIN e.f |-> IF n \in Range(names) THEN value ELSE e.f[n]]]

\* CopyDevice and CopyChannelIdList: the last times are not kept, the list exists in any case
CopyDevice(e) == With([e EXCEPT !.null = FALSE], LastTimes, Null)

CopyChannel(e) == e

\* Wrong on purpose: an invite is copied with what it has
CopyInviteAsIs(e) == e

\* An operationInfo is made in any case
CopyExecutingInviteCmd(e) ==
    IF e.info THEN e ELSE [With(e, InfoSaved(e.type), Default) EXCEPT !.info = TRUE]

CopyOf(e) == CASE e.kind = "device" -> CopyDevice(e) [] e.kind = "channel" -> CopyChannel(e)
               [] e.kind = "invite" -> CopyExecutingInviteCmd(e) [] OTHER -> e

-----------------------------------------------------------------------------
(* save *)

Item(field, value) == [field |-> field, value |-> value]
Plain(e, names) == [i \in DOMAIN names |-> Item(names[i], e.f[names[i]])]

savetime(e) == IF HasTime(e) THEN <<Item("flag", 1)>> \o Plain(e, TimeSaved) ELSE <<Item("flag", 0)>>

savechannellist(e) ==
    IF e.null THEN <<Item("size", 0)>>
    ELSE <<Item("size", Len(e.list))>>
            \o FlattenSeq([i \in DOMAIN e.list |-> <<Item("list.deviceId", e.list[i]),
                                                     Item("list.channelDeviceId", e.list[i])>>])

saveDevice(e) ==
    FlattenSeq([i \in DOMAIN DeviceSaved |->
        CASE DeviceSaved[i] = "deviceStateChangeTime" -> savetime(e)
          [] DeviceSaved[i] = "channelList" -> savechannellist(e)
          [] OTHER -> Plain(e, <<DeviceSaved[i]>>)])

saveInvite(e) ==
    Plain(With(e, <<"cmdType">>, e.type), InviteHead) \o Plain(e, InfoSaved(e.type)) \o Plain(e, InviteTail)

save(e) == CASE e.kind = "device" -> saveDevice(e) [] e.kind = "channel" -> Plain(e, ChannelSaved)
             [] e.kind = "invite" -> saveInvite(e) [] OTHER -> Plain(e, NorahSaved(e.kind))

\* Without operationInfo, save dereferences a null pointer
Dereferences(e) == e.kind = "invite" /\ ~e.info /\ InfoSaved(e.type) # <<>>

Fits(size, capacity) == size <= capacity

Grown[capacity \in Nat, size \in Nat] == IF Fits(size, capacity) THEN capacity ELSE Grown[2 * capacity, size]

\* DBOutStream::save makes room by doubling the buffer until the item fits
Room(capacity, size) == Grown[capacity, size]

-----------------------------------------------------------------------------
(* load *)

\* A new entity of the kind of e; load makes an operationInfo for an invite
Blank(e) == [e EXCEPT !.list = <<>>, !.null = TRUE, !.info = (e.kind = "invite"), !.f = [n \in DOMAIN e.f |-> Default]]

loadFields(e) == CASE e.kind = "device" -> DeviceLoaded [] e.kind = "channel" -> ChannelLoaded
                   [] e.kind = "invite" -> InviteHead [] OTHER -> NorahLoaded(e.kind)

\* What is to be read after field f, which has turned out to be v
Following(f, v, rest) ==
    CASE f = "deviceStateChangeTime" -> <<"flag">> \o rest
      [] f = "flag" -> IF v = 1 THEN TimeLoaded \o rest ELSE rest
      [] f = "channelList" -> <<"size">> \o rest
      [] f = "size" -> FlattenSeq([i \in 1 .. v |-> <<"list.deviceId", "list.channelDeviceId">>]) \o rest
      [] f = "cmdType" -> rest \o InfoLoaded(v) \o InviteTailLoaded
      [] OTHER -> rest

-----------------------------------------------------------------------------
Init == /\ entity \in Entities /\ step = "copy" /\ copy = entity /\ todo = <<>>
        /\ out = [items |-> <<>>, size |-> 0, capacity |-> Block]
        /\ in = [at |-> 1, error |-> FALSE, entity |-> Blank(entity)]

\* PushEntity, in the application's thread; norah's entities are copied by their constructors
PushEntity == /\ step = "copy" /\ step' = "save" /\ copy' = CopyOf(entity)
              /\ IF Dereferences(copy') THEN todo' = <<>> ELSE todo' = save(copy')
              /\ UNCHANGED <<entity, out, in>>

\* One operator << after the other
SaveItem == /\ step = "save" /\ todo # <<>> /\ todo' = Tail(todo)
            /\ out' = [items |-> Append(out.items, Head(todo)), size |-> out.size + copy.size,
                       capacity |-> Room(out.capacity, out.size + copy.size)]
            /\ UNCHANGED <<entity, step, copy, in>>

Saved == /\ step = "save" /\ todo = <<>>
         /\ IF Dereferences(copy) THEN step' = "crashed" /\ UNCHANGED todo
            ELSE step' = "load" /\ todo' = loadFields(copy)
         /\ UNCHANGED <<entity, copy, out, in>>

Markers == {"deviceStateChangeTime", "channelList"}

\* One operator >> after the other.  Behind the end, the error is noted.
LoadItem ==
    LET f == Head(todo)
        over == in.at > Len(out.items)
        item == out.items[in.at]
        value == IF over \/ item.field # f THEN Garbage ELSE item.value
        e == in.entity IN
    /\ step = "load" /\ todo # <<>>
    /\ IF f \in Markers
       THEN /\ todo' = Following(f, 0, Tail(todo))
            /\ in' = IF f = "channelList" THEN [in EXCEPT !.entity.null = FALSE] ELSE in
       ELSE /\ todo' = IF over \/ item.field # f THEN Tail(todo) ELSE Following(f, value, Tail(todo))
            /\ in' = [at |-> in.at + 1, error |-> in.error \/ over,
                      entity |-> CASE f \in DOMAIN e.f -> [e EXCEPT !.f[f] = value]
                                   [] f = "list.channelDeviceId" -> [e EXCEPT !.list = Append(@, value)]
                                   [] OTHER -> e]
    /\ UNCHANGED <<entity, step, copy, out>>

\* The two last times are set to null; the rest is what was read
Loaded == /\ step = "load" /\ todo = <<>> /\ step' = "done"
          /\ in' = [in EXCEPT !.entity = With(@, LastTimes, Null)]
          /\ UNCHANGED <<entity, copy, todo, out>>

Next == PushEntity \/ SaveItem \/ Saved \/ LoadItem \/ Loaded

Spec == Init /\ [][Next]_vars

-----------------------------------------------------------------------------
\* What is to come back: all but the last times, the channels by their ids, and an invite's
\* information, if there was any.
Kept(e) ==
    LET times == With(e, LastTimes, Null) IN
    CASE e.kind = "device" -> With([times EXCEPT !.null = FALSE], <<"deviceStateChangeTime", "channelList">>, Default)
      [] e.kind = "invite" -> With([(IF e.info THEN e ELSE With(e, InfoSaved(e.type), Default)) EXCEPT !.info = TRUE],
                                   <<"cmdType">>, e.type)
      [] OTHER -> e

\* What is loaded is what the application handed over, though the entity was copied, written
\* and read by three pieces of code that name every field on their own.
RoundTrip == step = "done" => /\ in.entity = Kept(entity) /\ ~in.error /\ in.at = Len(out.items) + 1

\* An entity in the operations queue can be saved: a missing operationInfo is not dereferenced.
CopyCanBeSaved == step # "crashed"

\* The stream never writes behind its buffer, and takes less than twice what it needs.
StreamHolds == /\ Fits(out.size, out.capacity)
               /\ out.capacity > Block => out.capacity < 2 * out.size
=============================================================================
