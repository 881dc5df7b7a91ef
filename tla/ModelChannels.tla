--------------------------- MODULE ModelChannels ---------------------------
(***************************************************************************)
(* The model channels an administrator keeps in one JSON row, the flat     *)
(* fields of older clients that mirror the active one, and the calls of    *)
(* language models that read them.                                         *)
(*                                                                         *)
(* Every save writes the whole row from what its request has read.  A row  *)
(* from before there were channels is migrated by whoever reads it first,  *)
(* which may be a page or an interview.  One URL, base, stands for all.    *)
(***************************************************************************)
EXTENDS Naturals, Sequences, FiniteSets, SequencesExt

CONSTANTS
    Requests,       \* handlers that read, and may save, the settings
    Ids,            \* channel ids: random, never given twice
    Keys,           \* API keys
    Models,         \* model names
    MaxSaves,       \* bound: saves and calls that are started
    None

VARIABLES
    row,            \* admin_settings["demo"].value_json, or None
    used,           \* ids given so far
    task,           \* [Requests -> what the request is doing]
    starts,
    seen            \* history: calls that one state of the row asks for

vars == <<row, used, task, starts, seen>>

\* The flat fields, the channels, and the part of value_json that holds both.
Flats == [base : BOOLEAN, key : Keys \cup {None}, model : Models \cup {None}]
Channels == [id : Ids, base : BOOLEAN, key : Keys \cup {None}, model : Models \cup {None}]
Payloads == [channels : Seq(Channels), active : Ids \cup {None}, flat : Flats]

ASSUME NoRowIsNoPayload == None \notin Payloads

NoFlat == [base |-> FALSE, key |-> None, model |-> None]
Default == [channels |-> <<>>, active |-> None, flat |-> NoFlat]

-----------------------------------------------------------------------------
(* The payload.                                                            *)

IdsOf(p) == {p.channels[i].id : i \in DOMAIN p.channels}
Position(p, id) == CHOOSE i \in DOMAIN p.channels : p.channels[i].id = id
Configured(flat) == flat.base /\ flat.key # None
Flat(c) == [base |-> c.base, key |-> c.key, model |-> c.model]
Channel(id, flat) == [id |-> id, base |-> flat.base, key |-> flat.key, model |-> flat.model]

\* _active_channel, where there is one: the first when no channel is active.
ActiveChannel(p) ==
    IF p.active \in IdsOf(p) THEN p.channels[Position(p, p.active)] ELSE p.channels[1]

\* Mutant: the mirror is only filled, never emptied.
Mirrored_Kept(p) ==
    IF p.channels = <<>> THEN [p EXCEPT !.active = None]
    ELSE [p EXCEPT !.active = ActiveChannel(p).id, !.flat = Flat(ActiveChannel(p))]

\* _mirror_active_to_legacy
Mirrored(p) ==
    IF p.channels = <<>> THEN Default
    ELSE [p EXCEPT !.active = ActiveChannel(p).id, !.flat = Flat(ActiveChannel(p))]

\* _needs_channel_migration_persist
NeedsMigration(p) == p.channels = <<>> /\ Configured(p.flat)

\* _ensure_channel_shape; a channel that has to be invented gets the id fresh.
Shaped(p, fresh) ==
    Mirrored(IF NeedsMigration(p)
             THEN [p EXCEPT !.channels = <<Channel(fresh, p.flat)>>, !.active = fresh]
             ELSE p)

Stored(r) == IF r = None THEN Default ELSE r

-----------------------------------------------------------------------------
(* What a save makes of the payload.                                       *)

Created(p, id, flat, activate) ==
    LET q == [p EXCEPT !.channels = Append(@, Channel(id, flat))] IN
    Shaped(IF activate \/ p.active = None THEN Mirrored([q EXCEPT !.active = id]) ELSE q, id)

\* A blank key keeps the key; a model that is given, blank or not, is set.
Changed(c, key, model) ==
    [c EXCEPT !.key = IF key = None THEN @ ELSE key, !.model = model]

Updated(p, id, key, model) ==
    Mirrored([p EXCEPT !.channels[Position(p, id)] = Changed(@, key, model)])

\* The first of the channels left takes over from the active one.
Deleted(p, id) ==
    LET q == [p EXCEPT !.channels = RemoveAt(@, Position(p, id))] IN
    Mirrored(IF p.active = id
             THEN [q EXCEPT !.active = IF q.channels = <<>> THEN None ELSE q.channels[1].id]
             ELSE q)

Activated(p, id) == Mirrored([p EXCEPT !.active = id])

\* update_settings with the flat fields of an older client: what makes a usable
\* address goes to the active channel, or to a first one; what does not is
\* forgotten again.
Patched(p, flat, id) ==
    LET q == [p EXCEPT !.flat = flat] IN
    Mirrored(IF ~Configured(flat) THEN q
             ELSE IF p.channels = <<>>
             THEN [q EXCEPT !.channels = <<Channel(id, flat)>>, !.active = id]
             ELSE LET c == ActiveChannel(p) IN
                  [q EXCEPT !.channels[Position(p, c.id)] = Channel(c.id, flat), !.active = c.id])

-----------------------------------------------------------------------------
(* What a reader makes of it.                                              *)

Policy == [key |-> "env", model |-> "policy"]

\* effective_model_config: the active channel if it is complete, else the
\* environment (the flat fields say the same as the active channel).
Effective(p) ==
    LET flat == IF p.channels # <<>> THEN Flat(ActiveChannel(p)) ELSE p.flat IN
    IF Configured(flat) /\ flat.model # None
    THEN [source |-> "admin", key |-> flat.key, model |-> flat.model]
    ELSE [source |-> "env", key |-> "env", model |-> None]

\* AgentModelFactory.build_runtime_config
ModelOf(c) == IF c.source = "admin" THEN c.model ELSE Policy.model

\* AgentModelFactory.build reads twice: the model, then the key and its address.
BuiltCall(first, second) == [key |-> second.key, model |-> ModelOf(first)]

\* _resolve_model_config, _build_client: an administrator's channel is used as a
\* whole; the environment's key with the model that was found before.
NativeCall(first, second) ==
    [key |-> second.key, model |-> IF second.source = "admin" THEN second.model ELSE ModelOf(first)]

\* What the row asks for.
CallFor(p) == NativeCall(Effective(p), Effective(p))

-----------------------------------------------------------------------------

Resting == [pc |-> "idle", kind |-> None, copy |-> None, first |-> None, call |-> None]

Init ==
    /\ row \in {None} \cup {[Default EXCEPT !.flat = [base |-> TRUE, key |-> k, model |-> m]]
                             : k \in Keys \cup {None}, m \in Models \cup {None}}
    /\ used = {}
    /\ task = [r \in Requests |-> Resting]
    /\ starts = 0
    /\ seen = {CallFor(Shaped(Stored(row), None))}

\* _persist: the whole row, made from the copy its request has read.
Write(new) ==
    /\ row' = new
    /\ seen' = seen \cup {CallFor(Stored(row'))}

Goto(r, pc, copy) == task' = [task EXCEPT ![r].pc = pc, ![r].copy = copy]

\* A save of the administrator; a turn of the messages endpoints, which pins the
\* settings it has read; a turn of the OpenAI-compatible endpoints, or a bundle
\* that is generated, which do not; a build of a client.
Kinds == {"save", "turn", "unpinned", "build"}

\* get_settings: the row is read, and migrated next if it has to be.
Reading(kind) ==
    [Resting EXCEPT !.kind = kind, !.copy = row,
                    !.pc = IF NeedsMigration(Stored(row)) THEN "migrating" ELSE "ready"]

Begin(r, kind) ==
    /\ task[r].pc = "idle"
    /\ starts < MaxSaves
    /\ starts' = starts + 1
    /\ task' = [task EXCEPT ![r] = Reading(kind)]
    /\ UNCHANGED <<row, used, seen>>

\* ... and migrated, whoever asked for it.
Migrate(r) ==
    /\ task[r].pc = "migrating"
    /\ \E id \in Ids \ used :
         /\ used' = used \cup {id}
         /\ Write(Shaped(task[r].copy, id))
         /\ Goto(r, "ready", Shaped(task[r].copy, id))
    /\ UNCHANGED starts

\* What the request goes on with.
Payload(r) == Mirrored(Stored(task[r].copy))

Finish(r, new) ==
    /\ task[r].pc = "ready" /\ task[r].kind = "save"
    /\ Write(new)
    /\ task' = [task EXCEPT ![r] = Resting]
    /\ UNCHANGED starts

CreateChannel(r) ==
    \E id \in Ids \ used, key \in Keys, model \in Models \cup {None}, activate \in BOOLEAN :
      /\ Finish(r, Created(Payload(r), id, [base |-> TRUE, key |-> key, model |-> model], activate))
      /\ used' = used \cup {id}

UpdateChannel(r) ==
    \E id \in IdsOf(Payload(r)), key \in Keys \cup {None}, model \in Models \cup {None} :
      Finish(r, Updated(Payload(r), id, key, model)) /\ UNCHANGED used

DeleteChannel(r) ==
    \E id \in IdsOf(Payload(r)) : Finish(r, Deleted(Payload(r), id)) /\ UNCHANGED used

ActivateChannel(r) ==
    \E id \in IdsOf(Payload(r)) : Finish(r, Activated(Payload(r), id)) /\ UNCHANGED used

\* PATCH /settings.  A key left blank keeps the mirrored one.
PatchSettings(r) ==
    \E id \in Ids \ used, base \in BOOLEAN, key \in Keys \cup {Payload(r).flat.key},
       model \in Models \cup {None} :
      LET flat == [base |-> base, key |-> key, model |-> model] IN
      /\ Finish(r, Patched(Payload(r), flat, id))
      /\ used' = IF Configured(flat) /\ Payload(r).channels = <<>> THEN used \cup {id} ELSE used

\* The first read is over (and the row migrated).  Where the settings are pinned
\* (admin_model_runtime) it is the only one; the others read again.
ReadAgain(r) ==
    /\ task[r].pc = "ready" /\ task[r].kind \in {"build", "unpinned"}
    /\ task' = [task EXCEPT ![r].pc = "calling", ![r].first = Payload(r), ![r].copy = row]
    /\ UNCHANGED <<row, used, starts, seen>>

Pin(r) ==
    /\ task[r].pc = "ready" /\ task[r].kind = "turn"
    /\ task' = [task EXCEPT ![r].pc = "calling", ![r].first = Payload(r)]
    /\ UNCHANGED <<row, used, starts, seen>>

\* Mutant: a turn looks up the key for each call.
Called_Unpinned(r) == NativeCall(Effective(task[r].first), Effective(Mirrored(Stored(row))))

\* The configuration a call is made with.
Called(r) ==
    LET first == Effective(task[r].first)
        second == Effective(Payload(r))
    IN  CASE task[r].kind = "turn" -> NativeCall(first, first)
          [] task[r].kind = "build" -> BuiltCall(first, second)
          [] task[r].kind = "unpinned" -> NativeCall(first, second)

\* A turn calls its model as often as it has to: for each call
\* effective_model_config is asked again, and gives what is pinned, if anything.
CallModel(r) ==
    /\ task[r].pc = "calling"
    /\ task' = [task EXCEPT ![r].call = Called(r)]
    /\ UNCHANGED <<row, used, starts, seen>>

\* ... and otherwise reads the row for the next call.
CallAgain(r) ==
    /\ task[r].pc = "calling" /\ task[r].call # None /\ task[r].kind = "unpinned"
    /\ task' = [task EXCEPT ![r] = Reading("unpinned")]
    /\ UNCHANGED <<row, used, starts, seen>>

EndCalls(r) ==
    /\ task[r].pc = "calling" /\ task[r].call # None
    /\ task' = [task EXCEPT ![r] = Resting]
    /\ UNCHANGED <<row, used, starts, seen>>

Next ==
    \E r \in Requests :
      \/ \E kind \in Kinds : Begin(r, kind)
      \/ Migrate(r)
      \/ CreateChannel(r) \/ UpdateChannel(r) \/ DeleteChannel(r) \/ ActivateChannel(r)
      \/ PatchSettings(r)
      \/ ReadAgain(r) \/ Pin(r) \/ CallModel(r) \/ CallAgain(r) \/ EndCalls(r)

Spec == Init /\ [][Next]_vars

-----------------------------------------------------------------------------
(* Properties.                                                             *)

\* The flat fields say what the active channel says, which is one of the
\* channels, whatever saves have run over each other; a row without channels is
\* empty, or nobody has read it since there are channels.  So a deleted key can
\* not come back by the migration of what is left of it.
MirrorsActive ==
    row # None /\ used # {} =>
        IF row.channels = <<>> THEN row = Default
        ELSE row.active \in IdsOf(row) /\ row.flat = Flat(ActiveChannel(row))

\* A call is made with the key and the model that one state of the settings asks
\* for: always in a turn of the messages endpoints, whatever the administrator
\* does meanwhile; elsewhere, which is in the turns of /v1/chat/completions and
\* /v1/responses too, unless the settings change between the two reads
\* (admin_model_runtime, docs/API.md:1073).
CallsAreWhole ==
    \A r \in Requests :
      task[r].call # None /\ (task[r].kind = "turn" \/ task[r].first = Payload(r))
      => task[r].call \in seen

=============================================================================
