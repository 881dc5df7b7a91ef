-------------------------- MODULE ModelChannelsProofs --------------------------
(***************************************************************************)
(* Theorems about ModelChannels, for every set of requests, ids, keys and  *)
(* models: what a row says of its active channel, and what a call is made  *)
(* with.                                                                   *)
(***************************************************************************)
EXTENDS ModelChannels, SequenceTheorems, TLAPS

-----------------------------------------------------------------------------
(* Rows.                                                                   *)

\* Ids are unique in a row: an id names one channel.
Distinct(p) ==
    \A i, j \in DOMAIN p.channels : p.channels[i].id = p.channels[j].id => i = j

\* A row as every save leaves it.
Sound(p) ==
    /\ p \in Payloads /\ Distinct(p)
    /\ IF p.channels = <<>> THEN p = Default
       ELSE p.active \in IdsOf(p) /\ p.flat = Flat(ActiveChannel(p))

\* A row from before there were channels.
Legacy(p) == p \in Payloads /\ p.channels = <<>> /\ p.active = None

\* What a request may have read when the ids given are in U.
Row(r, U) == r = None \/ Legacy(r) \/ (Sound(r) /\ IdsOf(r) \subseteq U)

\* What a request may be about to save.
Saved(p, U) == Sound(p) /\ IdsOf(p) \subseteq U

-----------------------------------------------------------------------------
(* The operators on rows.                                                  *)

\* The position of an id that is there.
LEMMA PositionOf ==
    ASSUME NEW p, NEW id \in IdsOf(p)
    PROVE  Position(p, id) \in DOMAIN p.channels /\ p.channels[Position(p, id)].id = id
<1>1. \E i \in DOMAIN p.channels : p.channels[i].id = id
  BY DEF IdsOf
<1>2. QED
  BY <1>1 DEF Position

\* An empty row is sound.
LEMMA DefaultSound == Sound(Default) /\ IdsOf(Default) = {}
<1>1. <<>> \in Seq(Channels) /\ DOMAIN <<>> = {}
  OBVIOUS
<1>2. Default \in Payloads
  BY <1>1 DEF Default, NoFlat, Payloads, Flats
<1>3. Default.channels = <<>>
  BY DEF Default
<1>4. QED
  BY <1>1, <1>2, <1>3 DEF Sound, Distinct, IdsOf

\* The channel that is mirrored is one of the row's.
LEMMA ActiveIsThere ==
    ASSUME NEW p \in Payloads, p.active \in IdsOf(p)
    PROVE  /\ ActiveChannel(p) = p.channels[Position(p, p.active)]
           /\ ActiveChannel(p) \in Channels
           /\ ActiveChannel(p).id = p.active
           /\ Flat(ActiveChannel(p)) \in Flats
<1>1. Position(p, p.active) \in DOMAIN p.channels /\ p.channels[Position(p, p.active)].id = p.active
  BY PositionOf
<1>2. p.channels \in Seq(Channels)
  BY DEF Payloads
<1>3. p.channels[Position(p, p.active)] \in Channels
  BY <1>1, <1>2
<1>4. QED
  BY <1>1, <1>3 DEF ActiveChannel, Flat, Channels, Flats

\* Mirroring makes a row sound and keeps its channels.
LEMMA MirroredSound ==
    ASSUME NEW p \in Payloads, Distinct(p), p.channels = <<>> \/ p.active \in IdsOf(p)
    PROVE  Sound(Mirrored(p)) /\ IdsOf(Mirrored(p)) = IdsOf(p)
<1>1. CASE p.channels = <<>>
  <2>1. IdsOf(p) = {}
    BY <1>1 DEF IdsOf
  <2>2. QED
    BY <1>1, <2>1, DefaultSound DEF Mirrored
<1>2. CASE p.channels # <<>>
  <2> DEFINE c == ActiveChannel(p)
             q == [p EXCEPT !.active = c.id, !.flat = Flat(c)]
  <2>1. c = p.channels[Position(p, p.active)] /\ c.id = p.active /\ Flat(c) \in Flats
    BY <1>2, ActiveIsThere
  <2>2. Mirrored(p) = q
    BY <1>2 DEF Mirrored
  <2> HIDE DEF c
  <2>3. q.channels = p.channels /\ q.active = p.active /\ q.flat = Flat(c) /\ q \in Payloads
    BY <2>1 DEF Payloads
  <2> HIDE DEF q
  <2>4. IdsOf(q) = IdsOf(p) /\ Distinct(q) /\ Position(q, q.active) = Position(p, p.active)
    BY <2>3 DEF IdsOf, Distinct, Position
  <2>5. q.active \in IdsOf(q)
    BY <1>2, <2>3, <2>4
  <2>6. ActiveChannel(q) = c
    BY <2>1, <2>3, <2>4, <2>5 DEF ActiveChannel
  <2>7. QED
    BY <1>2, <2>2, <2>3, <2>4, <2>5, <2>6 DEF Sound
<1>3. QED
  BY <1>1, <1>2

\* Mirroring changes nothing about a sound row.
LEMMA MirroredSame == ASSUME NEW p, Sound(p) PROVE Mirrored(p) = p
<1>1. CASE p.channels = <<>>
  BY <1>1 DEF Sound, Mirrored
<1>2. CASE p.channels # <<>>
  <2>1. p \in Payloads /\ p.active \in IdsOf(p) /\ p.flat = Flat(ActiveChannel(p))
    BY <1>2 DEF Sound
  <2>2. ActiveChannel(p).id = p.active
    BY <2>1, ActiveIsThere
  <2>3. Mirrored(p) = [p EXCEPT !.active = p.active, !.flat = p.flat]
    BY <1>2, <2>1, <2>2 DEF Mirrored
  <2>4. QED
    BY <2>1, <2>3 DEF Payloads
<1>3. QED
  BY <1>1, <1>2

\* A row with channels, or an empty one, asks for no migration.
LEMMA SoundMigrated == ASSUME NEW p, Sound(p) PROVE ~NeedsMigration(p)
  BY DEF Sound, NeedsMigration, Configured, Default, NoFlat

\* What a request goes on with is sound, whatever it has read.
LEMMA PayloadSound ==
    ASSUME NEW U, NEW r, Row(r, U)
    PROVE  Saved(Mirrored(Stored(r)), U)
<1>1. CASE r = None
  BY <1>1, DefaultSound, MirroredSame DEF Stored, Saved
<1>2. CASE r # None /\ Legacy(r)
  BY <1>2, DefaultSound DEF Stored, Legacy, Mirrored, Saved
<1>3. CASE r # None /\ Sound(r) /\ IdsOf(r) \subseteq U
  BY <1>3, MirroredSame DEF Stored, Saved
<1>4. QED
  BY <1>1, <1>2, <1>3 DEF Row

-----------------------------------------------------------------------------
(* What the saves make of a sound row.                                     *)

\* What every channel row is made of.
LEMMA ChannelType ==
    ASSUME NEW id \in Ids, NEW flat \in Flats
    PROVE  Channel(id, flat) \in Channels /\ Channel(id, flat).id = id
  BY DEF Channel, Channels, Flats

\* A row that has channels is not migrated.
LEMMA ShapedMirrored ==
    ASSUME NEW q, NEW fresh, q.channels # <<>>
    PROVE  Shaped(q, fresh) = Mirrored(q)
  BY DEF Shaped, NeedsMigration

\* One more channel, under an id that is new to the row.
LEMMA Appended ==
    ASSUME NEW p \in Payloads, Distinct(p), NEW c \in Channels, c.id \notin IdsOf(p),
           NEW q, q = [p EXCEPT !.channels = Append(@, c)]
    PROVE  /\ q \in Payloads /\ Distinct(q) /\ q.channels # <<>>
           /\ q.active = p.active /\ q.flat = p.flat
           /\ IdsOf(q) = IdsOf(p) \cup {c.id}
<1> DEFINE s == p.channels
           t == Append(s, c)
<1>1. s \in Seq(Channels)
  BY DEF Payloads
<1>2. t \in Seq(Channels) /\ t # <<>> /\ Len(t) = Len(s) + 1 /\ Len(s) \in Nat
      /\ (\A i \in 1 .. Len(s) : t[i] = s[i]) /\ t[Len(s) + 1] = c
  BY <1>1, AppendProperties, LenProperties
<1>3. DOMAIN s = 1 .. Len(s) /\ DOMAIN t = 1 .. (Len(s) + 1)
  BY <1>1, <1>2, LenProperties
<1>4. q \in Payloads /\ q.channels = t /\ q.active = p.active /\ q.flat = p.flat
  BY <1>2 DEF Payloads
<1>5. \A i \in DOMAIN s : s[i].id # c.id
  BY DEF IdsOf
<1> HIDE DEF s, t
<1>6. \A i \in DOMAIN t : (i \in DOMAIN s /\ t[i] = s[i]) \/ (i = Len(s) + 1 /\ t[i] = c)
  BY <1>2, <1>3
<1>7. Distinct(q)
  <2>1. \A i, j \in DOMAIN s : s[i].id = s[j].id => i = j
    BY DEF Distinct, s
  <2>2. \A i, j \in DOMAIN t : t[i].id = t[j].id => i = j
    BY <1>5, <1>6, <2>1
  <2>3. QED
    BY <1>4, <2>2 DEF Distinct
<1>8. IdsOf(q) = IdsOf(p) \cup {c.id}
  <2>1. IdsOf(p) = {s[i].id : i \in DOMAIN s} /\ IdsOf(q) = {t[i].id : i \in DOMAIN t}
    BY <1>4 DEF IdsOf, s
  <2>2. \A i \in DOMAIN s : i \in DOMAIN t /\ t[i] = s[i]
    BY <1>2, <1>3
  <2>3. Len(s) + 1 \in DOMAIN t
    BY <1>2, <1>3
  <2>4. \A x \in IdsOf(q) : x \in IdsOf(p) \cup {c.id}
    BY <1>6, <2>1
  <2>5. \A x \in IdsOf(p) : x \in IdsOf(q)
    BY <2>1, <2>2
  <2>6. c.id \in IdsOf(q)
    BY <1>2, <2>1, <2>3
  <2>7. QED
    BY <2>4, <2>5, <2>6
<1>9. QED
  BY <1>2, <1>4, <1>7, <1>8

\* A channel that is replaced under its own id.
LEMMA Replaced ==
    ASSUME NEW p \in Payloads, Distinct(p), NEW i \in DOMAIN p.channels,
           NEW c \in Channels, c.id = p.channels[i].id,
           NEW q, q.channels = [p.channels EXCEPT ![i] = c]
    PROVE  /\ q.channels \in Seq(Channels) /\ Distinct(q) /\ q.channels # <<>>
           /\ IdsOf(q) = IdsOf(p)
<1> DEFINE s == p.channels
<1>1. s \in Seq(Channels)
  BY DEF Payloads
<1>2. DOMAIN s = 1 .. Len(s) /\ Len(s) \in Nat
  BY <1>1, LenProperties
<1>3. /\ q.channels \in Seq(Channels) /\ Len(q.channels) = Len(s)
      /\ \A j \in 1 .. Len(s) : q.channels[j] = IF j = i THEN c ELSE s[j]
  BY <1>1, <1>2, ExceptSeq
<1>4. DOMAIN q.channels = DOMAIN s
  BY <1>2, <1>3, LenProperties
<1>5. \A j \in DOMAIN s : q.channels[j].id = s[j].id
  BY <1>2, <1>3
<1>6. q.channels # <<>>
  BY <1>2, <1>3
<1>7. Distinct(q) /\ IdsOf(q) = IdsOf(p)
  BY <1>4, <1>5 DEF Distinct, IdsOf
<1>8. QED
  BY <1>3, <1>6, <1>7

\* channels.pop(index): the channel is gone, and only that one.
LEMMA Popped ==
    ASSUME NEW p \in Payloads, Distinct(p), NEW i \in DOMAIN p.channels,
           NEW q, q.channels = RemoveAt(p.channels, i)
    PROVE  /\ q.channels \in Seq(Channels) /\ Distinct(q)
           /\ IdsOf(q) = IdsOf(p) \ {p.channels[i].id}
           /\ q.channels # <<>> => q.channels[1].id \in IdsOf(q)
<1> DEFINE s == p.channels
           n == Len(s)
           t == q.channels
<1>1. s \in Seq(Channels) /\ n \in Nat /\ DOMAIN s = 1 .. n /\ i \in 1 .. n
  BY LenProperties DEF Payloads
<1> DEFINE a == SubSeq(s, 1, i - 1)
           b == SubSeq(s, i + 1, n)
<1>2. /\ a \in Seq(Channels) /\ Len(a) = i - 1
      /\ \A j \in 1 .. i - 1 : a[j] = s[j]
  BY <1>1, SubSeqProperties
<1>3. /\ b \in Seq(Channels) /\ Len(b) = n - i
      /\ \A j \in 1 .. n - i : b[j] = s[j + i]
  <2>1. \A j \in i + 1 .. n : s[j] \in Channels
    BY <1>1
  <2>2. i + 1 \in Int /\ n \in Int
    BY <1>1
  <2>3. /\ b \in Seq(Channels)
        /\ Len(b) = IF i + 1 <= n THEN n - (i + 1) + 1 ELSE 0
        /\ \A j \in 1 .. n - (i + 1) + 1 : b[j] = s[(i + 1) + j - 1]
    BY <2>1, <2>2, SubSeqProperties, SMTT(30)
  <2>4. Len(b) = n - i
    BY <1>1, <2>3
  <2>5. ASSUME NEW j \in 1 .. n - i PROVE b[j] = s[j + i]
    <3>1. j \in 1 .. n - (i + 1) + 1 /\ (i + 1) + j - 1 = j + i
      BY <1>1
    <3>2. QED
      BY <2>3, <3>1
  <2>6. QED
    BY <2>3, <2>4, <2>5
<1>4. t = a \o b
  BY DEF RemoveAt
<1> HIDE DEF a, b, n, s, t
<1>5. /\ t \in Seq(Channels) /\ Len(t) = n - 1
      /\ \A j \in 1 .. n - 1 : t[j] = IF j < i THEN s[j] ELSE s[j + 1]
  <2>1. /\ t \in Seq(Channels) /\ Len(t) = Len(a) + Len(b)
        /\ \A j \in 1 .. Len(a) + Len(b) : t[j] = IF j <= Len(a) THEN a[j] ELSE b[j - Len(a)]
    BY <1>2, <1>3, <1>4, ConcatProperties
  <2>2. Len(a) + Len(b) = n - 1
    BY <1>1, <1>2, <1>3
  <2>3. ASSUME NEW j \in 1 .. n - 1 PROVE t[j] = IF j < i THEN s[j] ELSE s[j + 1]
    <3>1. t[j] = IF j <= i - 1 THEN a[j] ELSE b[j - (i - 1)]
      BY <1>2, <2>1, <2>2
    <3>2. CASE j < i
      <4>1. j <= i - 1 /\ j \in 1 .. i - 1
        BY <1>1, <3>2
      <4>2. QED
        BY <1>2, <3>1, <3>2, <4>1
    <3>3. CASE ~(j < i)
      <4>1. ~(j <= i - 1) /\ j - (i - 1) \in 1 .. n - i /\ (j - (i - 1)) + i = j + 1
        BY <1>1, <3>3
      <4>2. b[j - (i - 1)] = s[(j - (i - 1)) + i]
        BY <1>3, <4>1
      <4>3. QED
        BY <3>1, <3>3, <4>1, <4>2
    <3>4. QED
      BY <3>2, <3>3
  <2>4. QED
    BY <2>1, <2>2, <2>3
<1>6. DOMAIN t = 1 .. n - 1
  BY <1>5, LenProperties
<1>7. Distinct(q)
  <2>1. \A j, k \in 1 .. n : s[j].id = s[k].id => j = k
    BY <1>1 DEF Distinct, s
  <2>2. \A j, k \in 1 .. n - 1 : t[j].id = t[k].id => j = k
    <3> SUFFICES ASSUME NEW j \in 1 .. n - 1, NEW k \in 1 .. n - 1, t[j].id = t[k].id
                 PROVE  j = k
      OBVIOUS
    <3> DEFINE x == IF j < i THEN j ELSE j + 1
               y == IF k < i THEN k ELSE k + 1
    <3>1. x \in 1 .. n /\ y \in 1 .. n
      BY <1>1
    <3>2. t[j] = s[x] /\ t[k] = s[y]
      BY <1>5
    <3>3. x = y
      BY <2>1, <3>1, <3>2
    <3>4. QED
      BY <1>1, <3>3
  <2>3. QED
    BY <1>6, <2>2 DEF Distinct, t
<1>8. IdsOf(q) = IdsOf(p) \ {s[i].id}
  <2>1. IdsOf(p) = {s[j].id : j \in 1 .. n} /\ IdsOf(q) = {t[j].id : j \in 1 .. n - 1}
    BY <1>1, <1>6 DEF IdsOf, s, t
  <2>2. \A j \in 1 .. n : j # i => s[j].id # s[i].id
    BY <1>1 DEF Distinct, s
  <2>3. \A j \in 1 .. n - 1 : t[j].id \in IdsOf(p) \ {s[i].id}
    <3> SUFFICES ASSUME NEW j \in 1 .. n - 1 PROVE t[j].id \in IdsOf(p) \ {s[i].id}
      OBVIOUS
    <3>1. \E x \in 1 .. n : x # i /\ t[j] = s[x]
      <4>1. CASE j < i
        <5>1. j \in 1 .. n /\ j # i /\ t[j] = s[j]
          BY <1>1, <1>5, <4>1
        <5>2. QED
          BY <5>1
      <4>2. CASE ~(j < i)
        <5>1. j + 1 \in 1 .. n /\ j + 1 # i
          BY <1>1, <4>2
        <5>2. t[j] = s[j + 1]
          BY <1>5, <4>2
        <5>3. QED
          BY <5>1, <5>2
      <4>3. QED
        BY <4>1, <4>2
    <3>2. QED
      BY <2>1, <2>2, <3>1
  <2>4. \A j \in 1 .. n : j # i => s[j].id \in IdsOf(q)
    <3> SUFFICES ASSUME NEW j \in 1 .. n, j # i PROVE s[j].id \in IdsOf(q)
      OBVIOUS
    <3>1. \E x \in 1 .. n - 1 : t[x] = s[j]
      <4>1. CASE j < i
        BY <1>1, <1>5, <4>1
      <4>2. CASE j > i
        <5>1. j - 1 \in 1 .. n - 1 /\ t[j - 1] = s[j]
          BY <1>1, <1>5, <4>2
        <5>2. QED
          BY <5>1
      <4>3. QED
        BY <1>1, <4>1, <4>2
    <3>2. QED
      BY <2>1, <3>1
  <2>5. \A x \in IdsOf(q) : x \in IdsOf(p) \ {s[i].id}
    BY <2>1, <2>3
  <2>6. \A x \in IdsOf(p) \ {s[i].id} : x \in IdsOf(q)
    BY <2>1, <2>4
  <2>7. QED
    BY <2>5, <2>6
<1>9. t # <<>> => t[1].id \in IdsOf(q)
  <2>1. t # <<>> => 1 \in DOMAIN t
    BY <1>1, <1>5, <1>6, EmptySeq
  <2>2. QED
    BY <2>1 DEF IdsOf, t
<1>10. QED
  BY <1>5, <1>7, <1>8, <1>9 DEF s, t

\* The first channel of a row, which is its active one.
LEMMA FirstChannel ==
    ASSUME NEW p \in Payloads, NEW id \in Ids, NEW flat \in Flats,
           NEW q, q = [p EXCEPT !.channels = <<Channel(id, flat)>>, !.active = id]
    PROVE  Saved(Mirrored(q), {id})
<1> DEFINE s == <<Channel(id, flat)>>
<1>1. s \in Seq(Channels) /\ DOMAIN s = {1} /\ s[1].id = id
  BY ChannelType
<1>2. q = [p EXCEPT !.channels = s, !.active = id]
  OBVIOUS
<1> HIDE DEF s
<1>3. q.channels = s /\ q.active = id /\ q \in Payloads
  BY <1>1, <1>2 DEF Payloads
<1>4. IdsOf(q) = {id} /\ Distinct(q)
  BY <1>1, <1>3 DEF IdsOf, Distinct
<1>5. QED
  BY <1>3, <1>4, MirroredSound DEF Saved

\* create_channel
LEMMA CreatedSaved ==
    ASSUME NEW U, NEW p, Saved(p, U), NEW id \in Ids, id \notin U,
           NEW flat \in Flats, NEW activate \in BOOLEAN
    PROVE  Saved(Created(p, id, flat, activate), U \cup {id})
<1> DEFINE c == Channel(id, flat)
           q == [p EXCEPT !.channels = Append(@, c)]
           q2 == [q EXCEPT !.active = id]
<1>1. p \in Payloads /\ Distinct(p) /\ IdsOf(p) \subseteq U /\ id \notin IdsOf(p)
  BY DEF Saved, Sound
<1>2. c \in Channels /\ c.id = id
  BY ChannelType
<1>3. Created(p, id, flat, activate) = Shaped(IF activate \/ p.active = None THEN Mirrored(q2) ELSE q, id)
  BY DEF Created
<1> HIDE DEF c
<1>4. /\ q \in Payloads /\ Distinct(q) /\ q.channels # <<>>
      /\ q.active = p.active /\ IdsOf(q) = IdsOf(p) \cup {id}
  BY <1>1, <1>2, Appended
<1> HIDE DEF q
<1>5. CASE activate \/ p.active = None
  <2>1. q2 \in Payloads /\ q2.channels = q.channels /\ q2.active = id
    BY <1>4 DEF Payloads
  <2> HIDE DEF q2
  <2>2. Distinct(q2) /\ IdsOf(q2) = IdsOf(q)
    BY <1>4, <2>1 DEF Distinct, IdsOf
  <2>3. Sound(Mirrored(q2)) /\ IdsOf(Mirrored(q2)) = IdsOf(q)
    BY <1>4, <2>1, <2>2, MirroredSound
  <2>4. Shaped(Mirrored(q2), id) = Mirrored(q2)
    BY <2>3, MirroredSame, SoundMigrated DEF Shaped
  <2>5. QED
    BY <1>1, <1>3, <1>4, <1>5, <2>3, <2>4 DEF Saved
<1>6. CASE ~(activate \/ p.active = None)
  <2>1. p.channels # <<>>
    BY <1>6 DEF Saved, Sound, Default
  <2>2. q.active \in IdsOf(q)
    BY <1>4, <2>1 DEF Saved, Sound
  <2>3. Sound(Mirrored(q)) /\ IdsOf(Mirrored(q)) = IdsOf(q)
    BY <1>4, <2>2, MirroredSound
  <2>4. Shaped(q, id) = Mirrored(q)
    BY <1>4, ShapedMirrored
  <2>5. QED
    BY <1>1, <1>3, <1>4, <1>6, <2>3, <2>4 DEF Saved
<1>7. QED
  BY <1>5, <1>6

\* update_channel
LEMMA UpdatedSaved ==
    ASSUME NEW U, NEW p, Saved(p, U), NEW id \in IdsOf(p),
           NEW key \in Keys \cup {None}, NEW model \in Models \cup {None}
    PROVE  Saved(Updated(p, id, key, model), U)
<1> DEFINE i == Position(p, id)
           c == Changed(p.channels[i], key, model)
           q == [p EXCEPT !.channels[i] = c]
<1>1. p \in Payloads /\ Distinct(p) /\ IdsOf(p) \subseteq U /\ p.channels \in Seq(Channels)
  BY DEF Saved, Sound, Payloads
<1>2. i \in DOMAIN p.channels
  BY PositionOf
<1>3. Updated(p, id, key, model) = Mirrored(q)
  BY DEF Updated
<1> HIDE DEF i
<1>4. p.channels[i] \in Channels
  BY <1>1, <1>2
<1>5. c \in Channels /\ c.id = p.channels[i].id
  BY <1>4 DEF Changed, Channels
<1> HIDE DEF c
<1>6. /\ q.channels = [p.channels EXCEPT ![i] = c] /\ q.active = p.active
      /\ q.channels \in Seq(Channels) => q \in Payloads
  BY <1>1 DEF Payloads
<1> HIDE DEF q
<1>7. q.channels \in Seq(Channels) /\ Distinct(q) /\ q.channels # <<>> /\ IdsOf(q) = IdsOf(p)
  BY <1>1, <1>2, <1>5, <1>6, Replaced
<1>8. q \in Payloads
  BY <1>6, <1>7
<1>9. q.active \in IdsOf(q)
  <2>1. p.channels # <<>>
    BY <1>1, <1>2
  <2>2. QED
    BY <1>6, <1>7, <2>1 DEF Saved, Sound
<1>10. QED
  BY <1>1, <1>3, <1>7, <1>8, <1>9, MirroredSound DEF Saved

\* delete_channel: the first channel left takes over.
LEMMA DeletedSaved ==
    ASSUME NEW U, NEW p, Saved(p, U), NEW id \in IdsOf(p)
    PROVE  Saved(Deleted(p, id), U)
<1> DEFINE i == Position(p, id)
           q == [p EXCEPT !.channels = RemoveAt(@, i)]
           q2 == [q EXCEPT !.active = IF q.channels = <<>> THEN None ELSE q.channels[1].id]
<1>1. p \in Payloads /\ Distinct(p) /\ IdsOf(p) \subseteq U
  BY DEF Saved, Sound
<1>2. i \in DOMAIN p.channels /\ p.channels[i].id = id
  BY PositionOf
<1>3. Deleted(p, id) = Mirrored(IF p.active = id THEN q2 ELSE q)
  BY DEF Deleted
<1> HIDE DEF i
<1>4. /\ q.channels = RemoveAt(p.channels, i) /\ q.active = p.active
      /\ q.channels \in Seq(Channels) => q \in Payloads
  BY <1>1 DEF Payloads
<1> HIDE DEF q
<1>5. /\ q.channels \in Seq(Channels) /\ Distinct(q) /\ IdsOf(q) = IdsOf(p) \ {id}
      /\ q.channels # <<>> => q.channels[1].id \in IdsOf(q)
  BY <1>1, <1>2, <1>4, Popped
<1>6. q \in Payloads
  BY <1>4, <1>5
<1>7. CASE p.active = id
  <2>1. q.channels # <<>> => q.channels[1].id \in Ids
    <3>1. \A j \in DOMAIN q.channels : q.channels[j] \in Channels
      BY <1>5
    <3>2. \A x \in IdsOf(q) : x \in Ids
      BY <3>1 DEF IdsOf, Channels
    <3>3. QED
      BY <1>5, <3>2
  <2>2. /\ q2 \in Payloads /\ q2.channels = q.channels
        /\ q2.active = IF q.channels = <<>> THEN None ELSE q.channels[1].id
    BY <1>6, <2>1 DEF Payloads
  <2> HIDE DEF q2
  <2>3. Distinct(q2) /\ IdsOf(q2) = IdsOf(q)
    BY <1>5, <2>2 DEF Distinct, IdsOf
  <2>4. q2.channels = <<>> \/ q2.active \in IdsOf(q2)
    BY <1>5, <2>2, <2>3
  <2>5. QED
    BY <1>1, <1>3, <1>5, <1>7, <2>2, <2>3, <2>4, MirroredSound DEF Saved
<1>8. CASE p.active # id
  <2>1. p.active \in IdsOf(p)
    BY <1>1, <1>2 DEF Saved, Sound
  <2>2. q.active \in IdsOf(q)
    BY <1>4, <1>5, <1>8, <2>1
  <2>3. QED
    BY <1>1, <1>3, <1>5, <1>6, <1>8, <2>2, MirroredSound DEF Saved
<1>9. QED
  BY <1>7, <1>8

\* activate_channel
LEMMA ActivatedSaved ==
    ASSUME NEW U, NEW p, Saved(p, U), NEW id \in IdsOf(p)
    PROVE  Saved(Activated(p, id), U)
<1> DEFINE q == [p EXCEPT !.active = id]
<1>1. p \in Payloads /\ Distinct(p) /\ IdsOf(p) \subseteq U
  BY DEF Saved, Sound
<1>2. id \in Ids
  <2>1. \A j \in DOMAIN p.channels : p.channels[j] \in Channels
    BY <1>1 DEF Payloads
  <2>2. QED
    BY <2>1 DEF IdsOf, Channels
<1>3. q \in Payloads /\ q.channels = p.channels /\ q.active = id
  BY <1>1, <1>2 DEF Payloads
<1>4. Activated(p, id) = Mirrored(q)
  BY DEF Activated
<1> HIDE DEF q
<1>5. Distinct(q) /\ IdsOf(q) = IdsOf(p)
  BY <1>1, <1>3 DEF Distinct, IdsOf
<1>6. QED
  BY <1>1, <1>3, <1>4, <1>5, MirroredSound DEF Saved

\* update_settings: the id is used only where the first channel is made.
LEMMA PatchedSaved ==
    ASSUME NEW U, NEW p, Saved(p, U), NEW id \in Ids, NEW flat \in Flats
    PROVE  Saved(Patched(p, flat, id),
                 IF Configured(flat) /\ p.channels = <<>> THEN U \cup {id} ELSE U)
<1> DEFINE q == [p EXCEPT !.flat = flat]
           first == [q EXCEPT !.channels = <<Channel(id, flat)>>, !.active = id]
           c == ActiveChannel(p)
           i == Position(p, c.id)
           d == Channel(c.id, flat)
           other == [q EXCEPT !.channels[i] = d, !.active = c.id]
<1>1. p \in Payloads /\ Distinct(p) /\ IdsOf(p) \subseteq U /\ p.channels \in Seq(Channels)
  BY DEF Saved, Sound, Payloads
<1>2. q \in Payloads /\ q.channels = p.channels /\ q.active = p.active /\ q.flat = flat
  BY <1>1 DEF Payloads
<1>3. Patched(p, flat, id) =
          Mirrored(IF ~Configured(flat) THEN q ELSE IF p.channels = <<>> THEN first ELSE other)
  BY DEF Patched
<1>4. CASE ~Configured(flat)
  <2> HIDE DEF q
  <2>1. Distinct(q) /\ IdsOf(q) = IdsOf(p)
    BY <1>1, <1>2 DEF Distinct, IdsOf
  <2>2. q.channels = <<>> \/ q.active \in IdsOf(q)
    BY <1>2, <2>1 DEF Saved, Sound
  <2>3. QED
    BY <1>1, <1>2, <1>3, <1>4, <2>1, <2>2, MirroredSound DEF Saved
<1>5. CASE Configured(flat) /\ p.channels = <<>>
  <2>1. first = [q EXCEPT !.channels = <<Channel(id, flat)>>, !.active = id]
    OBVIOUS
  <2> HIDE DEF first, q
  <2>2. Saved(Mirrored(first), {id})
    BY <1>2, <2>1, FirstChannel
  <2>3. QED
    BY <1>3, <1>5, <2>2 DEF Saved
<1>6. CASE Configured(flat) /\ p.channels # <<>>
  <2>1. p.active \in IdsOf(p)
    BY <1>6 DEF Saved, Sound
  <2>2. c.id = p.active
    BY <1>1, <2>1, ActiveIsThere
  <2> HIDE DEF c
  <2>3. i \in DOMAIN p.channels /\ p.channels[i].id = c.id
    BY <2>1, <2>2, PositionOf
  <2> HIDE DEF i
  <2>4. c.id \in Ids
    <3>1. p.channels[i] \in Channels
      BY <1>1, <2>3
    <3>2. QED
      BY <2>3, <3>1 DEF Channels
  <2>5. d \in Channels /\ d.id = c.id
    BY <2>4, ChannelType
  <2> HIDE DEF d
  <2>6. /\ other.channels = [p.channels EXCEPT ![i] = d]
        /\ other.active = c.id /\ other.flat = flat
        /\ other.channels \in Seq(Channels) => other \in Payloads
    BY <1>1, <2>4 DEF Payloads
  <2> HIDE DEF other
  <2>7. other.channels \in Seq(Channels) /\ Distinct(other) /\ IdsOf(other) = IdsOf(p)
    BY <1>1, <2>3, <2>5, <2>6, Replaced
  <2>8. other \in Payloads
    BY <2>6, <2>7
  <2>9. QED
    BY <1>1, <1>3, <1>6, <2>1, <2>2, <2>6, <2>7, <2>8, MirroredSound DEF Saved
<1>7. QED
  BY <1>4, <1>5, <1>6

\* A row from before there were channels, migrated.
LEMMA ShapedSaved ==
    ASSUME NEW p, Legacy(p), NeedsMigration(p), NEW id \in Ids
    PROVE  Saved(Shaped(p, id), {id})
<1> DEFINE q == [p EXCEPT !.channels = <<Channel(id, p.flat)>>, !.active = id]
<1>1. p \in Payloads /\ p.flat \in Flats
  BY DEF Legacy, Payloads
<1>2. Shaped(p, id) = Mirrored(q)
  BY DEF Shaped
<1>3. QED
  BY <1>1, <1>2, FirstChannel

\* Mirroring a row of the type gives a row of the type, with channels or without.
LEMMA MirroredType ==
    ASSUME NEW p \in Payloads
    PROVE  /\ Mirrored(p) \in Payloads
           /\ p.channels # <<>> => Flat(ActiveChannel(p)) \in Flats
<1> DEFINE c == ActiveChannel(p)
<1>1. p.channels \in Seq(Channels)
  BY DEF Payloads
<1>2. p.channels # <<>> => c \in Channels
  <2>1. p.channels # <<>> => 1 \in DOMAIN p.channels
    BY <1>1, LenProperties, EmptySeq
  <2>2. p.channels # <<>> => p.channels[1] \in Channels
    BY <1>1, <2>1
  <2>3. QED
    BY <2>2, ActiveIsThere DEF ActiveChannel
<1>3. Mirrored(p) = IF p.channels = <<>> THEN Default ELSE [p EXCEPT !.active = c.id, !.flat = Flat(c)]
  BY DEF Mirrored
<1> HIDE DEF c
<1>4. c \in Channels => c.id \in Ids /\ Flat(c) \in Flats
  BY DEF Channels, Flat, Flats
<1>5. Default \in Payloads
  BY DefaultSound DEF Sound
<1>6. CASE p.channels = <<>>
  BY <1>3, <1>5, <1>6
<1>7. CASE p.channels # <<>>
  BY <1>2, <1>3, <1>4, <1>7 DEF Payloads, c
<1>8. QED
  BY <1>6, <1>7

-----------------------------------------------------------------------------
(* The invariant.                                                          *)

\* What a request is doing: its rows and its call are of their types.
Calls == [key : Keys \cup {None, "env"}, model : Models \cup {None, "policy"}]
Tasks == [pc : {"idle", "migrating", "ready", "calling"}, kind : Kinds \cup {None},
          copy : Payloads \cup {None}, first : Payloads \cup {None}, call : Calls \cup {None}]

TypeOK ==
    /\ used \subseteq Ids
    /\ row \in Payloads \cup {None}
    /\ task \in [Requests -> Tasks]

\* The row is as a save left it, or as it was before there were channels; then no
\* id was ever given.
RowSound ==
    /\ Row(row, used)
    /\ used # {} => row # None /\ Sound(row)

\* What the row asks for was written down, unless it has to be migrated first.
RowSeen == NeedsMigration(Stored(row)) \/ CallFor(Mirrored(Stored(row))) \in seen

\* What a request has read, where it stands, when the ids given are in U and the
\* calls asked for in S.
Standing(t, U, S) ==
    /\ t.pc = "idle" => t = Resting
    /\ t.pc = "migrating" => Legacy(t.copy) /\ NeedsMigration(t.copy)
    /\ t.pc = "ready" => Row(t.copy, U) /\ CallFor(Mirrored(Stored(t.copy))) \in S
    /\ t.pc = "calling" =>
         t.kind \in {"turn", "build", "unpinned"} /\ t.first \in Payloads /\ CallFor(t.first) \in S

\* A call was made from what its request has read.
CallMade(r) == task[r].call # None => task[r].pc = "calling" /\ task[r].call = Called(r)

IInv ==
    /\ TypeOK /\ RowSound /\ RowSeen
    /\ \A r \in Requests : Standing(task[r], used, seen)
    /\ \A r \in Requests : CallMade(r)

-----------------------------------------------------------------------------
(* What a call is made of.                                                 *)

\* A configuration is the environment's, or a whole channel's.
Configurations ==
    [source : {"env"}, key : {"env"}, model : {None}]
        \cup [source : {"admin"}, key : Keys, model : Models]

LEMMA EffectiveType ==
    ASSUME NEW p \in Payloads
    PROVE  Effective(p) \in Configurations
<1> DEFINE flat == IF p.channels # <<>> THEN Flat(ActiveChannel(p)) ELSE p.flat
<1>1. flat \in Flats
  BY MirroredType DEF Payloads
<1>2. Effective(p) = IF Configured(flat) /\ flat.model # None
                     THEN [source |-> "admin", key |-> flat.key, model |-> flat.model]
                     ELSE [source |-> "env", key |-> "env", model |-> None]
  BY DEF Effective
<1> HIDE DEF flat
<1>3. CASE Configured(flat) /\ flat.model # None
  <2>1. flat.key \in Keys /\ flat.model \in Models
    BY <1>1, <1>3 DEF Flats, Configured
  <2>2. QED
    BY <1>2, <1>3, <2>1 DEF Configurations
<1>4. CASE ~(Configured(flat) /\ flat.model # None)
  BY <1>2, <1>4 DEF Configurations
<1>5. QED
  BY <1>3, <1>4

\* A call made of any two configurations, and of one that is read twice.
LEMMA CallType ==
    ASSUME NEW e \in Configurations, NEW f \in Configurations
    PROVE  /\ NativeCall(e, f) \in Calls /\ BuiltCall(e, f) \in Calls
           /\ BuiltCall(e, e) = NativeCall(e, e)
<1>1. e.key \in Keys \cup {"env"} /\ e.model \in Models \cup {None}
  BY DEF Configurations
<1>2. f.key \in Keys \cup {"env"} /\ f.model \in Models \cup {None}
  BY DEF Configurations
<1>3. ModelOf(e) \in Models \cup {None, "policy"}
  BY <1>1 DEF ModelOf, Policy
<1>4. (IF e.source = "admin" THEN e.model ELSE ModelOf(e)) = ModelOf(e)
  BY DEF ModelOf
<1>5. BuiltCall(e, e) = NativeCall(e, e)
  BY <1>4 DEF BuiltCall, NativeCall
<1>6. QED
  BY <1>1, <1>2, <1>3, <1>5 DEF NativeCall, BuiltCall, Calls

-----------------------------------------------------------------------------
(* Its steps.                                                              *)

\* What every step has to leave true, for the request that takes it.
LEMMA StepOf ==
    ASSUME IInv, NEW r \in Requests, used \subseteq used', seen \subseteq seen',
           task' \in [Requests -> Tasks], \A q \in Requests \ {r} : task'[q] = task[q],
           used' \subseteq Ids, row' \in Payloads \cup {None}, RowSound', RowSeen',
           Standing(task'[r], used', seen'), CallMade(r)'
    PROVE  IInv'
<1>1. ASSUME NEW q \in Requests PROVE Standing(task'[q], used', seen')
  <2>1. CASE q = r
    BY <2>1
  <2>2. CASE q # r
    <3>1. task'[q] = task[q] /\ Standing(task[q], used, seen)
      BY <2>2 DEF IInv
    <3>2. QED
      BY <3>1 DEF Standing, Row
  <2>3. QED
    BY <2>1, <2>2
<1>2. ASSUME NEW q \in Requests PROVE CallMade(q)'
  <2>1. CASE q = r
    BY <2>1
  <2>2. CASE q # r
    <3>1. task'[q] = task[q] /\ CallMade(q)
      BY <2>2 DEF IInv
    <3>2. Called(q)' = Called(q)
      BY <3>1 DEF Called, Payload
    <3>3. QED
      BY <3>1, <3>2 DEF CallMade
  <2>3. QED
    BY <2>1, <2>2
<1>3. QED
  BY <1>1, <1>2 DEF IInv, TypeOK

\* What a save leaves true of the row.
LEMMA WriteSound ==
    ASSUME IInv, NEW new, used \subseteq used', Saved(new, used'), Write(new)
    PROVE  /\ row' \in Payloads \cup {None} /\ RowSound' /\ RowSeen'
           /\ seen \subseteq seen' /\ CallFor(new) \in seen'
<1>1. new \in Payloads /\ new # None /\ Sound(new) /\ IdsOf(new) \subseteq used'
  BY NoRowIsNoPayload DEF Saved, Sound
<1>2. row' = new /\ Stored(row') = new
  BY <1>1 DEF Write, Stored
<1>3. seen' = seen \cup {CallFor(new)}
  BY <1>2 DEF Write
<1>4. Mirrored(new) = new
  BY <1>1, MirroredSame
<1>5. Stored(row)' = new
  BY <1>2 DEF Stored
<1>6. RowSeen'
  BY <1>3, <1>4, <1>5 DEF RowSeen
<1>7. QED
  BY <1>1, <1>2, <1>3, <1>6 DEF RowSound, Row

\* A row of whatever age has the type.
LEMMA RowType == ASSUME NEW p, NEW U, Row(p, U) PROVE p \in Payloads \cup {None}
  BY DEF Row, Legacy, Sound

\* What a request at rest is.
LEMMA RestingType == Resting \in Tasks /\ Resting.pc = "idle" /\ Resting.call = None
  BY DEF Resting, Tasks

\* A save of a request that is ready.
LEMMA FinishStep ==
    ASSUME IInv, NEW r \in Requests, NEW new, Finish(r, new),
           used \subseteq used', used' \subseteq Ids, Saved(new, used')
    PROVE  IInv'
<1>1. Write(new) /\ task' = [task EXCEPT ![r] = Resting] /\ task \in [Requests -> Tasks]
  BY DEF Finish, IInv, TypeOK
<1>2. task'[r] = Resting /\ task' \in [Requests -> Tasks] /\ \A q \in Requests \ {r} : task'[q] = task[q]
  BY <1>1, RestingType
<1>3. Standing(task'[r], used', seen')
  BY <1>2, RestingType DEF Standing
<1>4. CallMade(r)'
  BY <1>2, RestingType DEF CallMade
<1>5. QED
  BY <1>1, <1>2, <1>3, <1>4, WriteSound, StepOf

\* What a request that is ready goes on with.
LEMMA ReadyPayload ==
    ASSUME IInv, NEW r \in Requests, task[r].pc = "ready"
    PROVE  /\ Saved(Payload(r), used) /\ Payload(r) \in Payloads /\ used \subseteq Ids
           /\ CallFor(Payload(r)) \in seen
<1>1. Row(task[r].copy, used) /\ CallFor(Payload(r)) \in seen /\ used \subseteq Ids
  BY DEF IInv, Standing, TypeOK, Payload
<1>2. Saved(Payload(r), used)
  BY <1>1, PayloadSound DEF Payload
<1>3. QED
  BY <1>1, <1>2 DEF Saved, Sound

\* Every step keeps the invariant.
LEMMA ReadingStep ==
    ASSUME IInv, NEW r \in Requests, NEW kind \in Kinds,
           task' = [task EXCEPT ![r] = Reading(kind)], UNCHANGED <<row, used, seen>>
    PROVE  IInv'
<1> DEFINE t == [Resting EXCEPT !.kind = kind, !.copy = row,
                   !.pc = IF NeedsMigration(Stored(row)) THEN "migrating" ELSE "ready"]
<1>1. /\ task' = [task EXCEPT ![r] = t] /\ UNCHANGED <<row, used, seen>>
      /\ task \in [Requests -> Tasks] /\ row \in Payloads \cup {None}
  BY DEF Reading, IInv, TypeOK
<1>2. /\ t \in Tasks /\ t.copy = row /\ t.call = None
      /\ t.pc = IF NeedsMigration(Stored(row)) THEN "migrating" ELSE "ready"
  BY <1>1 DEF Resting, Tasks
<1> HIDE DEF t
<1>3. task'[r] = t /\ task' \in [Requests -> Tasks] /\ \A q \in Requests \ {r} : task'[q] = task[q]
  BY <1>1, <1>2
<1>4. Row(row, used) /\ RowSeen
  BY DEF IInv, RowSound
<1>5. NeedsMigration(Stored(row)) => Legacy(row) /\ NeedsMigration(row)
  <2>1. ~NeedsMigration(Default)
    BY DefaultSound, SoundMigrated
  <2>2. Sound(row) => ~NeedsMigration(row)
    BY SoundMigrated
  <2>3. QED
    BY <1>4, <2>1, <2>2 DEF Row, Stored
<1>6. Standing(t, used, seen)
  BY <1>2, <1>4, <1>5 DEF Standing, RowSeen
<1>7. CallMade(r)'
  BY <1>2, <1>3 DEF CallMade
<1>8. RowSound' /\ RowSeen'
  BY <1>1 DEF IInv, RowSound, RowSeen
<1>9. used' \subseteq Ids /\ Standing(task'[r], used', seen')
  BY <1>1, <1>3, <1>6 DEF IInv, TypeOK
<1>10. QED
  BY <1>1, <1>3, <1>7, <1>8, <1>9, StepOf

LEMMA BeginStep ==
    ASSUME IInv, NEW r \in Requests, NEW kind \in Kinds, Begin(r, kind)
    PROVE  IInv'
  BY ReadingStep DEF Begin

LEMMA CallAgainStep ==
    ASSUME IInv, NEW r \in Requests, CallAgain(r)
    PROVE  IInv'
  BY ReadingStep DEF CallAgain, Kinds

LEMMA MigrateStep ==
    ASSUME IInv, NEW r \in Requests, Migrate(r)
    PROVE  IInv'
<1>1. PICK id \in Ids \ used :
        /\ used' = used \cup {id}
        /\ Write(Shaped(task[r].copy, id))
        /\ Goto(r, "ready", Shaped(task[r].copy, id))
  BY DEF Migrate
<1> DEFINE new == Shaped(task[r].copy, id)
           t == [task[r] EXCEPT !.pc = "ready", !.copy = new]
<1>2. task \in [Requests -> Tasks] /\ task[r] \in Tasks /\ used \subseteq Ids
  BY DEF IInv, TypeOK
<1>3. task[r].pc = "migrating" /\ Legacy(task[r].copy) /\ NeedsMigration(task[r].copy)
  BY DEF Migrate, IInv, Standing
<1>4. Saved(new, used')
  <2>1. Saved(new, {id})
    BY <1>3, ShapedSaved
  <2>2. QED
    BY <1>1, <2>1 DEF Saved
<1>5. task' = [task EXCEPT ![r] = t] /\ Write(new)
  BY <1>1, <1>2 DEF Goto
<1> HIDE DEF new
<1>6. /\ row' \in Payloads \cup {None} /\ RowSound' /\ RowSeen'
      /\ seen \subseteq seen' /\ CallFor(new) \in seen'
  BY <1>1, <1>4, <1>5, WriteSound
<1>7. new \in Payloads /\ new # None /\ Sound(new) /\ IdsOf(new) \subseteq used'
  BY <1>4, NoRowIsNoPayload DEF Saved, Sound
<1>8. t \in Tasks /\ t.pc = "ready" /\ t.copy = new /\ t.call = task[r].call
  BY <1>2, <1>7 DEF Tasks
<1> HIDE DEF t
<1>9. Mirrored(Stored(new)) = new
  BY <1>7, MirroredSame DEF Stored
<1>10. Standing(t, used', seen')
  BY <1>6, <1>7, <1>8, <1>9 DEF Standing, Row
<1>11. t.call = None
  BY <1>3, <1>8 DEF IInv, CallMade
<1>12. task'[r] = t /\ task' \in [Requests -> Tasks] /\ \A q \in Requests \ {r} : task'[q] = task[q]
  BY <1>2, <1>5, <1>8
<1>13. CallMade(r)' /\ used \subseteq used' /\ used' \subseteq Ids
  BY <1>1, <1>2, <1>11, <1>12 DEF CallMade
<1>14. QED
  BY <1>6, <1>10, <1>12, <1>13, StepOf

LEMMA SaveStep ==
    ASSUME IInv, NEW r \in Requests,
           \/ CreateChannel(r) \/ UpdateChannel(r) \/ DeleteChannel(r) \/ ActivateChannel(r)
           \/ PatchSettings(r)
    PROVE  IInv'
<1> DEFINE p == Payload(r)
<1>1. CASE CreateChannel(r)
  <2>1. PICK id \in Ids \ used, key \in Keys, model \in Models \cup {None}, activate \in BOOLEAN :
          /\ Finish(r, Created(p, id, [base |-> TRUE, key |-> key, model |-> model], activate))
          /\ used' = used \cup {id}
    BY <1>1 DEF CreateChannel
  <2> DEFINE flat == [base |-> TRUE, key |-> key, model |-> model]
  <2>2. flat \in Flats
    BY DEF Flats
  <2> HIDE DEF flat
  <2>3. Saved(p, used) /\ used \subseteq Ids
    BY <2>1, ReadyPayload DEF Finish
  <2> HIDE DEF p
  <2>4. Saved(Created(p, id, flat, activate), used')
    BY <2>1, <2>2, <2>3, CreatedSaved
  <2>5. QED
    BY <2>1, <2>3, <2>4, FinishStep DEF flat
<1>2. CASE UpdateChannel(r)
  <2>1. PICK id \in IdsOf(p), key \in Keys \cup {None}, model \in Models \cup {None} :
          Finish(r, Updated(p, id, key, model)) /\ UNCHANGED used
    BY <1>2 DEF UpdateChannel
  <2>2. Saved(p, used) /\ used \subseteq Ids
    BY <2>1, ReadyPayload DEF Finish
  <2> HIDE DEF p
  <2>3. Saved(Updated(p, id, key, model), used')
    BY <2>1, <2>2, UpdatedSaved
  <2>4. QED
    BY <2>1, <2>2, <2>3, FinishStep
<1>3. CASE DeleteChannel(r)
  <2>1. PICK id \in IdsOf(p) : Finish(r, Deleted(p, id)) /\ UNCHANGED used
    BY <1>3 DEF DeleteChannel
  <2>2. Saved(p, used) /\ used \subseteq Ids
    BY <2>1, ReadyPayload DEF Finish
  <2> HIDE DEF p
  <2>3. Saved(Deleted(p, id), used')
    BY <2>1, <2>2, DeletedSaved
  <2>4. QED
    BY <2>1, <2>2, <2>3, FinishStep
<1>4. CASE ActivateChannel(r)
  <2>1. PICK id \in IdsOf(p) : Finish(r, Activated(p, id)) /\ UNCHANGED used
    BY <1>4 DEF ActivateChannel
  <2>2. Saved(p, used) /\ used \subseteq Ids
    BY <2>1, ReadyPayload DEF Finish
  <2> HIDE DEF p
  <2>3. Saved(Activated(p, id), used')
    BY <2>1, <2>2, ActivatedSaved
  <2>4. QED
    BY <2>1, <2>2, <2>3, FinishStep
<1>5. CASE PatchSettings(r)
  <2>1. PICK id \in Ids \ used, base \in BOOLEAN, key \in Keys \cup {p.flat.key},
             model \in Models \cup {None} :
          /\ Finish(r, Patched(p, [base |-> base, key |-> key, model |-> model], id))
          /\ used' = IF Configured([base |-> base, key |-> key, model |-> model]) /\ p.channels = <<>>
                     THEN used \cup {id} ELSE used
    BY <1>5 DEF PatchSettings
  <2> DEFINE flat == [base |-> base, key |-> key, model |-> model]
  <2>2. Saved(p, used) /\ p \in Payloads /\ used \subseteq Ids
    BY <2>1, ReadyPayload DEF Finish
  <2> HIDE DEF p
  <2>3. p.flat.key \in Keys \cup {None}
    BY <2>2 DEF Payloads, Flats
  <2>4. flat \in Flats
    BY <2>3 DEF Flats
  <2>5. /\ Finish(r, Patched(p, flat, id))
        /\ used' = IF Configured(flat) /\ p.channels = <<>> THEN used \cup {id} ELSE used
    BY <2>1
  <2> HIDE DEF flat
  <2>6. Saved(Patched(p, flat, id), used')
    BY <2>2, <2>4, <2>5, PatchedSaved
  <2>7. used \subseteq used' /\ used' \subseteq Ids
    BY <2>2, <2>5
  <2>8. QED
    BY <2>5, <2>6, <2>7, FinishStep
<1>6. QED
  BY <1>1, <1>2, <1>3, <1>4, <1>5

\* A request that goes on to its call, with what it has read or with the row.
LEMMA CallingStep ==
    ASSUME IInv, NEW r \in Requests, ReadAgain(r) \/ Pin(r)
    PROVE  IInv'
<1>1. PICK copy \in {task[r].copy, row} :
        task' = [task EXCEPT ![r] = [task[r] EXCEPT !.pc = "calling", !.first = Payload(r), !.copy = copy]]
  <2>1. task \in [Requests -> Tasks] /\ task[r] \in Tasks
    BY DEF IInv, TypeOK
  <2>2. CASE ReadAgain(r)
    BY <2>1, <2>2 DEF ReadAgain
  <2>3. CASE Pin(r)
    <3>1. [task[r] EXCEPT !.pc = "calling", !.first = Payload(r)]
            = [task[r] EXCEPT !.pc = "calling", !.first = Payload(r), !.copy = task[r].copy]
      BY <2>1 DEF Tasks
    <3>2. task' = [task EXCEPT ![r] = [task[r] EXCEPT !.pc = "calling", !.first = Payload(r)]]
      BY <2>1, <2>3 DEF Pin
    <3>3. QED
      BY <3>1, <3>2
  <2>4. QED
    BY <2>2, <2>3
<1> DEFINE p == Payload(r)
           t == [task[r] EXCEPT !.pc = "calling", !.first = p, !.copy = copy]
<1>2. /\ task[r].pc = "ready" /\ task[r].kind \in {"turn", "build", "unpinned"}
      /\ UNCHANGED <<row, used, seen>>
  BY DEF ReadAgain, Pin
<1>3. task \in [Requests -> Tasks] /\ task[r] \in Tasks /\ row \in Payloads \cup {None}
  BY DEF IInv, TypeOK
<1>4. p \in Payloads /\ CallFor(p) \in seen
  BY <1>2, ReadyPayload
<1>5. task' = [task EXCEPT ![r] = t]
  BY <1>1
<1> HIDE DEF p
<1>6. copy \in Payloads \cup {None}
  BY <1>1, <1>3 DEF Tasks
<1>7. /\ t \in Tasks /\ t.pc = "calling" /\ t.first = p /\ t.kind = task[r].kind
      /\ t.call = task[r].call
  BY <1>3, <1>4, <1>6 DEF Tasks
<1> HIDE DEF t
<1>8. t.call = None
  BY <1>2, <1>7 DEF IInv, CallMade
<1>9. task'[r] = t /\ task' \in [Requests -> Tasks] /\ \A q \in Requests \ {r} : task'[q] = task[q]
  BY <1>3, <1>5, <1>7
<1>10. Standing(task'[r], used', seen') /\ CallMade(r)'
  BY <1>2, <1>4, <1>7, <1>8, <1>9 DEF Standing, CallMade
<1>11. RowSound' /\ RowSeen' /\ row' \in Payloads \cup {None} /\ used' \subseteq Ids
  BY <1>2 DEF IInv, TypeOK, RowSound, RowSeen
<1>12. QED
  BY <1>2, <1>9, <1>10, <1>11, StepOf

LEMMA CallModelStep ==
    ASSUME IInv, NEW r \in Requests, CallModel(r)
    PROVE  IInv'
<1> DEFINE t == [task[r] EXCEPT !.call = Called(r)]
<1>1. task' = [task EXCEPT ![r] = t] /\ task[r].pc = "calling" /\ UNCHANGED <<row, used, seen>>
  BY DEF CallModel
<1>2. task \in [Requests -> Tasks] /\ task[r] \in Tasks /\ used \subseteq Ids /\ row \in Payloads \cup {None}
  BY DEF IInv, TypeOK
<1>3. /\ task[r].kind \in {"turn", "build", "unpinned"} /\ task[r].first \in Payloads
      /\ CallFor(task[r].first) \in seen
  BY <1>1 DEF IInv, Standing
<1>4. Called(r) \in Calls
  <2>1. task[r].copy \in Payloads \cup {None}
    BY <1>2 DEF Tasks
  <2>2. Stored(task[r].copy) \in Payloads
    BY <2>1, DefaultSound DEF Stored, Sound
  <2>3. Payload(r) \in Payloads
    BY <2>2, MirroredType DEF Payload
  <2>4. Effective(task[r].first) \in Configurations /\ Effective(Payload(r)) \in Configurations
    BY <1>3, <2>3, EffectiveType
  <2>5. QED
    BY <1>3, <2>4, CallType DEF Called
<1>5. /\ t \in Tasks /\ t.pc = "calling" /\ t.first = task[r].first /\ t.kind = task[r].kind
      /\ t.copy = task[r].copy /\ t.call = Called(r)
  BY <1>1, <1>2, <1>4 DEF Tasks
<1> HIDE DEF t
<1>6. task'[r] = t /\ task' \in [Requests -> Tasks] /\ \A q \in Requests \ {r} : task'[q] = task[q]
  BY <1>1, <1>2, <1>5
<1>7. Called(r)' = Called(r)
  BY <1>5, <1>6 DEF Called, Payload
<1>8. Standing(task'[r], used', seen') /\ CallMade(r)'
  BY <1>1, <1>3, <1>5, <1>6, <1>7 DEF Standing, CallMade
<1>9. RowSound' /\ RowSeen'
  BY <1>1 DEF IInv, RowSound, RowSeen
<1>10. QED
  BY <1>1, <1>2, <1>6, <1>8, <1>9, StepOf

LEMMA EndCallsStep ==
    ASSUME IInv, NEW r \in Requests, EndCalls(r)
    PROVE  IInv'
<1>1. /\ task' = [task EXCEPT ![r] = Resting] /\ UNCHANGED <<row, used, seen>>
      /\ task \in [Requests -> Tasks]
  BY DEF EndCalls, IInv, TypeOK
<1>2. task'[r] = Resting /\ task' \in [Requests -> Tasks] /\ \A q \in Requests \ {r} : task'[q] = task[q]
  BY <1>1, RestingType
<1>3. Standing(task'[r], used', seen') /\ CallMade(r)'
  BY <1>2, RestingType DEF Standing, CallMade
<1>4. RowSound' /\ RowSeen' /\ row' \in Payloads \cup {None} /\ used' \subseteq Ids
  BY <1>1 DEF IInv, TypeOK, RowSound, RowSeen
<1>5. QED
  BY <1>1, <1>2, <1>3, <1>4, StepOf

LEMMA Initial == Init => IInv
<1> SUFFICES ASSUME Init PROVE IInv
  OBVIOUS
<1>1. /\ used = {} /\ task = [r \in Requests |-> Resting]
      /\ seen = {CallFor(Shaped(Stored(row), None))}
  BY DEF Init
<1>2. row = None \/ Legacy(row)
  <2>1. row # None => \E k \in Keys \cup {None}, m \in Models \cup {None} :
                        row = [Default EXCEPT !.flat = [base |-> TRUE, key |-> k, model |-> m]]
    BY DEF Init
  <2>2. ASSUME NEW k \in Keys \cup {None}, NEW m \in Models \cup {None},
               row = [Default EXCEPT !.flat = [base |-> TRUE, key |-> k, model |-> m]]
        PROVE  Legacy(row)
    <3> DEFINE flat == [base |-> TRUE, key |-> k, model |-> m]
    <3>1. flat \in Flats /\ <<>> \in Seq(Channels)
      BY DEF Flats
    <3>2. row = [channels |-> <<>>, active |-> None, flat |-> flat]
      BY <2>2 DEF Default
    <3> HIDE DEF flat
    <3>3. QED
      BY <3>1, <3>2 DEF Legacy, Payloads
  <2>3. QED
    BY <2>1, <2>2
<1>3. row \in Payloads \cup {None} /\ RowSound
  BY <1>1, <1>2 DEF Legacy, RowSound, Row
<1>4. RowSeen
  BY <1>1 DEF RowSeen, Shaped
<1>5. TypeOK
  BY <1>1, <1>3, RestingType DEF TypeOK
<1>6. \A r \in Requests : Standing(task[r], used, seen) /\ CallMade(r)
  BY <1>1, RestingType DEF Standing, CallMade
<1>7. QED
  BY <1>3, <1>4, <1>5, <1>6 DEF IInv

LEMMA Inductive == IInv /\ [Next]_vars => IInv'
<1> SUFFICES ASSUME IInv, [Next]_vars PROVE IInv'
  OBVIOUS
<1>1. CASE Next
  <2>1. PICK r \in Requests :
          \/ \E kind \in Kinds : Begin(r, kind)
          \/ Migrate(r)
          \/ CreateChannel(r) \/ UpdateChannel(r) \/ DeleteChannel(r) \/ ActivateChannel(r)
          \/ PatchSettings(r)
          \/ ReadAgain(r) \/ Pin(r) \/ CallModel(r) \/ CallAgain(r) \/ EndCalls(r)
    BY <1>1 DEF Next
  <2>2. QED
    BY <2>1, BeginStep, MigrateStep, SaveStep, CallingStep, CallModelStep,
       CallAgainStep, EndCallsStep
<1>2. CASE UNCHANGED vars
  BY <1>2 DEF vars, IInv, TypeOK, RowSound, RowSeen, CallMade, Called, Payload
<1>3. QED
  BY <1>1, <1>2

-----------------------------------------------------------------------------
(* Theorems.                                                               *)

\* Whatever saves run over each other, a row is a whole that one save has written,
\* and a request at work has read one such row.
THEOREM ChannelsInvariant == Spec => []IInv
<1>1. QED
  BY Initial, Inductive, PTL DEF Spec

\* The flat fields mirror the active channel, which is one of the channels; a row
\* that has lost its last channel has lost its key too.
THEOREM RowMirrorsActive == Spec => []MirrorsActive
<1>1. IInv => MirrorsActive
  BY DEF IInv, RowSound, Sound, MirrorsActive
<1>2. QED
  BY <1>1, ChannelsInvariant, PTL

\* An id names one channel of the row, so that what is popped, replaced or made
\* active at the first position found is the channel the administrator meant.
IdsAreUnique == row # None => Distinct(row)

THEOREM ChannelIdsAreUnique == Spec => []IdsAreUnique
<1>1. IInv => IdsAreUnique
  BY DEF IInv, RowSound, Row, Sound, Legacy, Distinct, IdsAreUnique
<1>2. QED
  BY <1>1, ChannelsInvariant, PTL

\* A turn of the messages endpoints makes every call with what one state of the
\* settings asks for; so does any other client, a turn of the OpenAI-compatible
\* endpoints among them, in each call whose two reads agree
\* (admin_model_runtime, effective_model_config).
THEOREM ModelCallsAreWhole == Spec => []CallsAreWhole
<1>1. IInv => CallsAreWhole
  <2> SUFFICES ASSUME IInv, NEW r \in Requests, task[r].call # None,
                      task[r].kind = "turn" \/ task[r].first = Payload(r)
               PROVE  task[r].call \in seen
    BY DEF CallsAreWhole
  <2> DEFINE e == Effective(task[r].first)
  <2>1. task[r].pc = "calling" /\ task[r].call = Called(r)
    BY DEF IInv, CallMade
  <2>2. /\ task[r].kind \in {"turn", "build", "unpinned"} /\ task[r].first \in Payloads
        /\ CallFor(task[r].first) \in seen
    BY <2>1 DEF IInv, Standing
  <2>3. e \in Configurations
    BY <2>2, EffectiveType
  <2>4. BuiltCall(e, e) = NativeCall(e, e)
    BY <2>3, CallType
  <2>5. Called(r) = NativeCall(e, e)
    BY <2>2, <2>4 DEF Called
  <2>6. QED
    BY <2>1, <2>2, <2>5 DEF CallFor
<1>2. QED
  BY <1>1, ChannelsInvariant, PTL

=============================================================================
