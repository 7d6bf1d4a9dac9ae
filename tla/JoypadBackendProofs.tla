------------------------- MODULE JoypadBackendProofs -------------------------
(***************************************************************************)
(* The Pico 2 W's settings and controllers, for every set of controllers   *)
(* and every number of profiles: what is in flash comes back, the GunCon   *)
(* bits stay with their profiles, an address has one slot, and only        *)
(* controllers that are paired and linked are reported to the PSP.         *)
(***************************************************************************)
EXTENDS JoypadBackend, SequenceTheorems, TLAPS

Maybe == Addresses \cup {None}
Mappings == [profile : Seq(BOOLEAN), active_profile : Nat]

\* A mapping config_model.c may produce: its active profile is one of its own.
IsMapping(c) ==
  /\ c \in Mappings
  /\ c.active_profile \in 1..Len(c.profile)

SettingsOK ==
  /\ IsMapping(g_mapping)
  /\ g_guncon_mask \in SUBSET Nat
  /\ g_p2_enabled \in BOOLEAN
  /\ flash \in [mapping : Mappings \cup {Absent}, mask : SUBSET Nat, p2 : BOOLEAN,
                slots : [Slots -> Maybe]]
  /\ flash.mapping # Absent => IsMapping(flash.mapping)
  /\ saved \in BOOLEAN /\ half \in BOOLEAN /\ mixed \in BOOLEAN

\* The bits of a flash whose profiles and bits were stored together are those
\* of its profiles, even those that a start would drop: the chord, which
\* stores the profiles alone, brings them back.
Together ==
  /\ ~half => flash.mask = BitsOf(Loaded.mapping)
  /\ ~mixed => g_guncon_mask = BitsOf(g_mapping)

SettingsInv == SettingsOK /\ Together /\ RestartBringsBack

\* The controllers' state.
SlotRecords == [address : Maybe, connected : BOOLEAN]
ControllersOK ==
  /\ device \in [Addresses -> {"away", "active", "leaving"}]
  /\ g_slots \in [Slots -> SlotRecords]
  /\ g_pairing_slot \in Slots \cup {NoPlayer}
  /\ g_input_enabled \in BOOLEAN /\ g_started \in BOOLEAN
  /\ g_pops_context \in BOOLEAN
  /\ input \in [Slots -> Maybe]
  /\ reported \in [Slots -> Maybe]
  /\ task = Idle \/ (task.pc = "pair" /\ task.conn \in Addresses /\ task.slot \in Slots)
                 \/ task.pc = "act"

\* Slots change by pairing and unpairing, which needs the portal; and then the
\* output to the PSP has been disabled, until the restart.
PortalFirst ==
  g_input_enabled => ~g_started /\ g_pairing_slot = NoPlayer /\ task.pc # "pair"

\* As long as the slots have not been touched, the input kept for a player is
\* that of its controller, which is linked.
InputOfSlot ==
  g_input_enabled =>
    \A p \in Slots : input[p] # None =>
      g_slots[p].address = input[p] /\ device[input[p]] # "away"

\* What is reported is the input that is kept.
ReportedInput ==
  /\ \A p \in Slots : reported[p] # None =>
       g_input_enabled /\ reported[p] = input[p] /\ (p = 1 => p2_runtime_enabled)
  /\ aim # None => g_input_enabled /\ g_pops_context /\ aim = input[0]

ControllersInv ==
  ControllersOK /\ SlotsKept /\ PortalFirst /\ InputOfSlot /\ ReportedInput
IInv == SettingsInv /\ ControllersInv

-----------------------------------------------------------------------------
(***************************************************************************)
(* The operations on profiles                                              *)
(***************************************************************************)

LEMMA AbsentIsNoMapping == \A c \in Mappings : c # Absent
  BY DEF Mappings, Absent

LEMMA DefaultsAreMapping ==
  IsMapping(rjm_config_set_defaults) /\ BitsOf(rjm_config_set_defaults) = {}
<1>1. <<FALSE>> \in Seq(BOOLEAN) /\ Len(<<FALSE>>) = 1 /\ <<FALSE>>[1] = FALSE
  OBVIOUS
<1>2. IsMapping(rjm_config_set_defaults)
  BY <1>1 DEF IsMapping, Mappings, rjm_config_set_defaults
<1>3. DOMAIN <<FALSE>> = {1}
  BY <1>1
<1>4. BitsOf(rjm_config_set_defaults) = {}
  BY <1>1, <1>3 DEF BitsOf, rjm_config_set_defaults
<1> QED
  BY <1>2, <1>4

\* The bits of a mapping are indices of its profiles.
LEMMA BitsAreIndices ==
  ASSUME NEW c, IsMapping(c)
  PROVE  BitsOf(c) \in SUBSET Nat /\ DOMAIN c.profile = 1..Len(c.profile)
  BY DEF IsMapping, Mappings, BitsOf

\* POST /api/profile/add copies the profile and its bit.
LEMMA AddKeepsBits ==
  ASSUME NEW c, IsMapping(c)
  PROVE  /\ IsMapping(add_profile(c))
         /\ MaskWithAdded(BitsOf(c), c) = BitsOf(add_profile(c))
<1> DEFINE p == c.profile
           a == c.active_profile
           q == Append(p, p[a])
<1>1. p \in Seq(BOOLEAN) /\ a \in 1..Len(p) /\ Len(p) \in Nat /\ p[a] \in BOOLEAN
  BY DEF IsMapping, Mappings
<1>2. /\ q \in Seq(BOOLEAN) /\ Len(q) = Len(p) + 1
      /\ q[Len(p) + 1] = p[a] /\ \A i \in 1..Len(p) : q[i] = p[i]
  BY <1>1
<1>3. add_profile(c) = [profile |-> q, active_profile |-> Len(p) + 1]
  BY DEF add_profile
<1>4. IsMapping(add_profile(c))
  BY <1>1, <1>2, <1>3 DEF IsMapping, Mappings
<1>5. MaskWithAdded(BitsOf(c), c) = BitsOf(add_profile(c))
  <2>1. BitsOf(add_profile(c)) = {i \in 1..(Len(p) + 1) : q[i]}
    BY <1>2, <1>3 DEF BitsOf
  <2>2. BitsOf(c) = {i \in 1..Len(p) : p[i]}
    BY <1>1 DEF BitsOf
  <2>3. CASE p[a]
    <3>1. MaskWithAdded(BitsOf(c), c) = BitsOf(c) \cup {Len(p) + 1}
      BY <1>1, <2>2, <2>3 DEF MaskWithAdded
    <3> QED
      BY <1>1, <1>2, <2>1, <2>2, <2>3, <3>1
  <2>4. CASE ~p[a]
    <3>1. MaskWithAdded(BitsOf(c), c) = BitsOf(c) \ {Len(p) + 1}
      BY <1>1, <2>2, <2>4 DEF MaskWithAdded
    <3> QED
      BY <1>1, <1>2, <2>1, <2>2, <2>4, <3>1
  <2> QED
    BY <2>3, <2>4
<1> QED
  BY <1>4, <1>5

\* POST /api/profile/delete moves the profiles behind it, and their bits.
LEMMA DeleteKeepsBits ==
  ASSUME NEW c, IsMapping(c), Len(c.profile) > 1, NEW index \in DOMAIN c.profile
  PROVE  /\ IsMapping(delete_profile(c, index))
         /\ MaskWithout(BitsOf(c), index) = BitsOf(delete_profile(c, index))
<1> DEFINE p == c.profile
           a == c.active_profile
           q == RemoveAt(p, index)
<1>1. p \in Seq(BOOLEAN) /\ a \in 1..Len(p) /\ Len(p) \in Nat /\ index \in 1..Len(p)
  BY DEF IsMapping, Mappings
<1>2. /\ q \in Seq(BOOLEAN) /\ Len(q) = Len(p) - 1
      /\ \A i \in 1..Len(q) : q[i] = IF i < index THEN p[i] ELSE p[i + 1]
  <2> DEFINE u == SubSeq(p, 1, index - 1)
             v == SubSeq(p, index + 1, Len(p))
  <2>1. u \in Seq(BOOLEAN) /\ Len(u) = index - 1 /\ \A i \in 1..Len(u) : u[i] = p[i]
    BY <1>1
  <2>2. /\ v \in Seq(BOOLEAN) /\ Len(v) = Len(p) - index
        /\ \A i \in 1..(Len(p) - index) : v[i] = p[index + i]
    <3> DEFINE m == index + 1
    <3>1. m \in Int /\ Len(p) \in Int /\ \A i \in m..Len(p) : p[i] \in BOOLEAN
      BY <1>1
    <3> HIDE DEF m
    <3>2. /\ SubSeq(p, m, Len(p)) \in Seq(BOOLEAN)
          /\ Len(SubSeq(p, m, Len(p))) = IF m <= Len(p) THEN Len(p) - m + 1 ELSE 0
          /\ \A i \in 1..(Len(p) - m + 1) : SubSeq(p, m, Len(p))[i] = p[m + i - 1]
      BY <3>1, SubSeqProperties
    <3> QED
      BY <1>1, <3>2 DEF m
  <2>3. q = u \o v
    BY DEF RemoveAt
  <2> HIDE DEF u, v
  <2>4. /\ u \o v \in Seq(BOOLEAN) /\ Len(u \o v) = Len(u) + Len(v)
        /\ \A i \in 1..(Len(u) + Len(v)) :
             (u \o v)[i] = IF i <= Len(u) THEN u[i] ELSE v[i - Len(u)]
    BY <2>1, <2>2
  <2>5. Len(q) = Len(p) - 1 /\ Len(u) + Len(v) = Len(p) - 1
    BY <1>1, <2>1, <2>2, <2>3, <2>4
  <2>6. ASSUME NEW i \in 1..Len(q)
        PROVE  q[i] = IF i < index THEN p[i] ELSE p[i + 1]
    <3>1. CASE i < index
      BY <1>1, <2>1, <2>3, <2>4, <2>5, <2>6, <3>1
    <3>2. CASE ~(i < index)
      <4> DEFINE k == i - (index - 1)
      <4>1. i \in 1..(Len(p) - 1) /\ i >= index /\ index \in Int /\ Len(p) \in Int
        BY <1>1, <2>5, <2>6, <3>2
      <4>2. k \in 1..(Len(p) - index) /\ index + k = i + 1
        BY <4>1
      <4>3. k = i - Len(u)
        BY <2>1
      <4> HIDE DEF k
      <4>4. v[i - Len(u)] = p[i + 1]
        BY <2>2, <4>2, <4>3
      <4> QED
        BY <1>1, <2>1, <2>3, <2>4, <2>5, <2>6, <3>2, <4>4
    <3> QED
      BY <3>1, <3>2
  <2> QED
    BY <2>3, <2>4, <2>5, <2>6
<1>3. /\ delete_profile(c, index).profile = q
      /\ delete_profile(c, index) \in Mappings
      /\ delete_profile(c, index).active_profile \in 1..Len(q)
  BY <1>1, <1>2 DEF delete_profile, Mappings
<1>4. IsMapping(delete_profile(c, index))
  BY <1>3 DEF IsMapping
<1>5. BitsOf(delete_profile(c, index)) = {i \in 1..Len(q) : q[i]}
  BY <1>2, <1>3 DEF BitsOf
<1>6. BitsOf(c) = {i \in 1..Len(p) : p[i]}
  BY <1>1 DEF BitsOf
<1>7. ASSUME NEW i \in MaskWithout(BitsOf(c), index)
      PROVE  i \in {k \in 1..Len(q) : q[k]}
  BY <1>1, <1>2, <1>6, <1>7 DEF MaskWithout
<1>8. ASSUME NEW i \in 1..Len(q), q[i]
      PROVE  i \in MaskWithout(BitsOf(c), index)
  <2>1. CASE i < index
    BY <1>1, <1>2, <1>6, <1>8, <2>1 DEF MaskWithout
  <2>2. CASE ~(i < index)
    <3>1. i + 1 \in BitsOf(c) /\ i + 1 > index /\ i = (i + 1) - 1
      BY <1>1, <1>2, <1>6, <1>8, <2>2
    <3> QED
      BY <3>1 DEF MaskWithout
  <2> QED
    BY <2>1, <2>2
<1> QED
  BY <1>4, <1>5, <1>7, <1>8

\* POST /api/profile/select and the chord change the active profile alone.
LEMMA SelectKeepsBits ==
  ASSUME NEW c, IsMapping(c), NEW index \in 1..Len(c.profile)
  PROVE  /\ IsMapping([c EXCEPT !.active_profile = index])
         /\ BitsOf([c EXCEPT !.active_profile = index]) = BitsOf(c)
  BY DEF IsMapping, Mappings, BitsOf

LEMMA NextIsAProfile ==
  ASSUME NEW c, IsMapping(c)
  PROVE  (c.active_profile % Len(c.profile)) + 1 \in 1..Len(c.profile)
  BY DEF IsMapping, Mappings

\* POST /api/guncon sets the choice and its bit.
LEMMA GunConKeepsBits ==
  ASSUME NEW c, IsMapping(c), NEW index \in DOMAIN c.profile, NEW on \in BOOLEAN
  PROVE  /\ IsMapping([c EXCEPT !.profile[index] = on])
         /\ BitsOf([c EXCEPT !.profile[index] = on]) =
              IF on THEN BitsOf(c) \cup {index} ELSE BitsOf(c) \ {index}
<1> DEFINE p == c.profile
           q == [p EXCEPT ![index] = on]
           d == [c EXCEPT !.profile[index] = on]
<1>1. p \in Seq(BOOLEAN) /\ c.active_profile \in 1..Len(p) /\ index \in 1..Len(p)
      /\ DOMAIN p = 1..Len(p)
  BY DEF IsMapping, Mappings
<1>2. q \in Seq(BOOLEAN) /\ Len(q) = Len(p) /\ q[index] = on
      /\ \A i \in 1..Len(p) : i # index => q[i] = p[i]
  BY <1>1
<1>3. d \in Mappings /\ d.profile = q /\ d.active_profile = c.active_profile
  BY <1>1, <1>2 DEF IsMapping, Mappings
<1>4. IsMapping(d)
  BY <1>1, <1>2, <1>3 DEF IsMapping
<1>5. BitsOf(d) = {i \in 1..Len(p) : q[i]} /\ BitsOf(c) = {i \in 1..Len(p) : p[i]}
  BY <1>1, <1>2, <1>3 DEF BitsOf
<1>6. BitsOf(d) = IF on THEN BitsOf(c) \cup {index} ELSE BitsOf(c) \ {index}
  BY <1>1, <1>2, <1>5
<1> QED
  BY <1>4, <1>6

-----------------------------------------------------------------------------
(***************************************************************************)
(* The settings and their records                                          *)
(***************************************************************************)

\* What a start would make of the records.
LEMMA LoadedRecords ==
  ASSUME SettingsOK
  PROVE  /\ Loaded.mask = LoadedMask /\ Loaded.p2 = flash.p2
         /\ flash.mapping = Absent =>
              Loaded.mapping = rjm_config_set_defaults /\ LoadedMask = {}
         /\ flash.mapping # Absent =>
              Loaded.mapping = flash.mapping /\ LoadedMask = flash.mask
         /\ IsMapping(Loaded.mapping)
         /\ LoadedMask \in SUBSET Nat
  BY DefaultsAreMapping DEF Loaded, LoadedMask, SettingsOK

LEMMA EqualSettings ==
  Loaded = InUse <=> /\ Loaded.mapping = g_mapping /\ Loaded.mask = g_guncon_mask
                     /\ Loaded.p2 = g_p2_enabled
  BY DEF Loaded, InUse

\* Records written together, or over a flash that agrees with what is in use,
\* belong together.
LEMMA StoreKeeps ==
  ASSUME SettingsInv, NEW what, NEW all \in BOOLEAN,
         all => {"mapping", "mask", "p2"} \subseteq what,
         flash' = Stored(what), half' = HalfAfter(what),
         saved' = ((saved /\ ~half) \/ all), UNCHANGED <<settingsVars, mixed>>
  PROVE  SettingsInv' /\ flash'.slots = flash.slots
<1>1. SettingsOK /\ Together /\ (saved => Loaded = InUse)
  BY DEF SettingsInv, RestartBringsBack
<1>2. /\ flash'.mapping = IF "mapping" \in what THEN g_mapping ELSE flash.mapping
      /\ flash'.mask = IF "mask" \in what THEN g_guncon_mask ELSE flash.mask
      /\ flash'.p2 = IF "p2" \in what THEN g_p2_enabled ELSE flash.p2
      /\ flash'.slots = flash.slots
      /\ flash' \in [mapping : Mappings \cup {Absent}, mask : SUBSET Nat, p2 : BOOLEAN,
                     slots : [Slots -> Maybe]]
  BY <1>1 DEF SettingsOK, Stored, IsMapping
<1>3. /\ g_mapping' = g_mapping /\ g_guncon_mask' = g_guncon_mask
      /\ g_p2_enabled' = g_p2_enabled /\ mixed' = mixed
  BY DEF settingsVars
<1>4. half' \in BOOLEAN /\ saved' \in BOOLEAN
  BY <1>1 DEF SettingsOK, HalfAfter
<1>5. SettingsOK'
  BY <1>1, <1>2, <1>3, <1>4 DEF SettingsOK
<1>6. g_mapping # Absent
  BY <1>1, AbsentIsNoMapping DEF SettingsOK, IsMapping
<1>7. /\ flash'.mapping = Absent => Loaded.mapping' = rjm_config_set_defaults
      /\ flash'.mapping = Absent => Loaded.mask' = {}
      /\ flash'.mapping # Absent => Loaded.mapping' = flash'.mapping
      /\ flash'.mapping # Absent => Loaded.mask' = flash'.mask
      /\ Loaded.p2' = flash'.p2
  BY DEF Loaded, LoadedMask
<1>8. /\ flash.mapping = Absent => Loaded.mapping = rjm_config_set_defaults
      /\ flash.mapping = Absent => Loaded.mask = {}
      /\ flash.mapping # Absent => Loaded.mapping = flash.mapping
      /\ flash.mapping # Absent => Loaded.mask = flash.mask
      /\ Loaded.p2 = flash.p2
  BY DEF Loaded, LoadedMask
<1>9. saved => /\ Loaded.mapping = g_mapping /\ Loaded.mask = g_guncon_mask
               /\ Loaded.p2 = g_p2_enabled
  BY <1>1, EqualSettings
<1>10. /\ ~half => flash.mask = BitsOf(Loaded.mapping)
       /\ ~mixed => g_guncon_mask = BitsOf(g_mapping)
       /\ BitsOf(rjm_config_set_defaults) = {}
  BY <1>1, DefaultsAreMapping DEF Together
<1>11. ~half' => flash'.mask = BitsOf(Loaded.mapping')
  <2>1. CASE {"mapping", "mask"} \subseteq what
    <3>1. half' = mixed
      BY <2>1 DEF HalfAfter
    <3> QED
      BY <1>2, <1>6, <1>7, <1>10, <2>1, <3>1
  <2>2. CASE ~({"mapping", "mask"} \subseteq what) /\ {"mapping", "mask"} \cap what # {}
    <3>1. half' = (half \/ mixed \/ ~saved)
      BY <1>1, <2>2 DEF HalfAfter, SettingsOK
    <3>2. CASE "mapping" \in what /\ "mask" \notin what
      BY <1>2, <1>6, <1>7, <1>8, <1>9, <1>10, <3>1, <3>2
    <3>3. CASE "mapping" \notin what /\ "mask" \in what
      BY <1>2, <1>7, <1>8, <1>9, <1>10, <3>1, <3>3
    <3> QED
      BY <2>2, <3>2, <3>3
  <2>3. CASE {"mapping", "mask"} \cap what = {}
    <3>1. half' = half
      BY <1>1, <2>3 DEF HalfAfter, SettingsOK
    <3> QED
      BY <1>2, <1>7, <1>8, <1>10, <2>3, <3>1
  <2> QED
    BY <2>1, <2>2, <2>3
<1>12. ASSUME saved' PROVE /\ Loaded.mapping' = g_mapping /\ Loaded.mask' = g_guncon_mask
                           /\ Loaded.p2' = g_p2_enabled
  <2>1. CASE all
    BY <1>2, <1>6, <1>7, <2>1
  <2>2. CASE saved /\ ~half
    BY <1>2, <1>6, <1>7, <1>8, <1>9, <1>10, <2>2
  <2> QED
    BY <1>12, <2>1, <2>2
<1>13. Together'
  BY <1>3, <1>10, <1>11 DEF Together, BitsOf
<1>14. RestartBringsBack'
  BY <1>3, <1>12 DEF RestartBringsBack, Loaded, InUse
<1> QED
  BY <1>2, <1>5, <1>13, <1>14 DEF SettingsInv

\* What is edited in RAM alone has to belong together, and is not saved.
LEMMA EditKeeps ==
  ASSUME SettingsInv, UNCHANGED <<flash, half>>, saved' = FALSE,
         g_p2_enabled' \in BOOLEAN, mixed' \in BOOLEAN,
         IsMapping(g_mapping'), ~mixed' => g_guncon_mask' = BitsOf(g_mapping'),
         g_guncon_mask' \in SUBSET Nat
  PROVE  SettingsInv'
<1>1. SettingsOK'
  BY DEF SettingsInv, SettingsOK
<1>2. Loaded' = Loaded
  BY DEF Loaded, LoadedMask
<1>3. Together'
  BY <1>2 DEF SettingsInv, Together, BitsOf
<1> QED
  BY <1>1, <1>3 DEF SettingsInv, RestartBringsBack

LEMMA ProfileRequestKeeps ==
  ASSUME SettingsInv, http_recv_profile
  PROVE  SettingsInv' /\ flash' = flash
<1>1. /\ IsMapping(g_mapping) /\ g_guncon_mask \in SUBSET Nat /\ mixed \in BOOLEAN
      /\ g_p2_enabled \in BOOLEAN /\ (~mixed => g_guncon_mask = BitsOf(g_mapping))
  BY DEF SettingsInv, SettingsOK, Together
<1>2. CASE reset_mapping
  BY <1>1, <1>2, DefaultsAreMapping, EditKeeps DEF reset_mapping, Edited
<1>3. CASE AddProfile
  <2>1. /\ g_mapping' = add_profile(g_mapping) /\ IsMapping(g_mapping')
        /\ MaskWithAdded(BitsOf(g_mapping), g_mapping) = BitsOf(g_mapping')
    BY <1>1, <1>3, AddKeepsBits DEF AddProfile
  <2>2. g_guncon_mask' \in SUBSET Nat
    <3>1. Len(g_mapping.profile) \in Nat
      BY <1>1 DEF IsMapping, Mappings
    <3>2. \/ g_guncon_mask' = g_guncon_mask \cup {Len(g_mapping.profile) + 1}
          \/ g_guncon_mask' = g_guncon_mask \ {Len(g_mapping.profile) + 1}
      BY <1>3 DEF AddProfile, MaskWithAdded
    <3>3. Len(g_mapping.profile) + 1 \in Nat
      BY <3>1
    <3>4. g_guncon_mask' \subseteq Nat
      BY <1>1, <3>2, <3>3
    <3> QED
      BY <3>4
  <2> QED
    BY <1>1, <1>3, <2>1, <2>2, EditKeeps DEF AddProfile, Edited
<1>4. CASE DeleteProfile
  <2>1. PICK index \in DOMAIN g_mapping.profile :
          /\ g_mapping' = delete_profile(g_mapping, index)
          /\ g_guncon_mask' = MaskWithout(g_guncon_mask, index)
    BY <1>4 DEF DeleteProfile
  <2>2. /\ IsMapping(g_mapping')
        /\ MaskWithout(BitsOf(g_mapping), index) = BitsOf(g_mapping')
    BY <1>1, <1>4, <2>1, DeleteKeepsBits DEF DeleteProfile
  <2>3. g_guncon_mask' \in SUBSET Nat
    <3>1. index \in Nat
      BY <1>1, BitsAreIndices
    <3>2. index \in 1..Len(g_mapping.profile)
      BY <1>1, BitsAreIndices
    <3>3. ASSUME NEW i \in g_guncon_mask' PROVE i \in Nat
      <4>1. i \in g_guncon_mask \/ \E j \in g_guncon_mask : j > index /\ i = j - 1
        BY <2>1 DEF MaskWithout
      <4>2. \A j \in g_guncon_mask : j \in Nat
        BY <1>1
      <4> QED
        BY <3>2, <4>1, <4>2
    <3> QED
      BY <3>3
  <2> QED
    BY <1>1, <1>4, <2>1, <2>2, <2>3, EditKeeps DEF DeleteProfile, Edited
<1>5. CASE SelectProfile
  <2>1. PICK index \in DOMAIN g_mapping.profile :
          g_mapping' = [g_mapping EXCEPT !.active_profile = index]
    BY <1>5 DEF SelectProfile
  <2>2. IsMapping(g_mapping') /\ BitsOf(g_mapping') = BitsOf(g_mapping)
    BY <1>1, <2>1, BitsAreIndices, SelectKeepsBits
  <2> QED
    BY <1>1, <1>5, <2>2, EditKeeps DEF SelectProfile, Edited
<1>6. CASE SetGunCon
  <2>1. PICK index \in DOMAIN g_mapping.profile, on \in BOOLEAN :
          /\ g_mapping' = [g_mapping EXCEPT !.profile[index] = on]
          /\ g_guncon_mask' = IF on THEN g_guncon_mask \cup {index}
                              ELSE g_guncon_mask \ {index}
    BY <1>6 DEF SetGunCon
  <2>2. /\ IsMapping(g_mapping')
        /\ BitsOf(g_mapping') = IF on THEN BitsOf(g_mapping) \cup {index}
                                ELSE BitsOf(g_mapping) \ {index}
    BY <1>1, <2>1, GunConKeepsBits
  <2>3. index \in Nat
    BY <1>1, BitsAreIndices
  <2>4. g_guncon_mask' \in SUBSET Nat
    BY <1>1, <2>1, <2>3
  <2>5. ~mixed => g_guncon_mask' = BitsOf(g_mapping')
    BY <1>1, <2>1, <2>2
  <2> QED
    BY <1>1, <1>6, <2>2, <2>4, <2>5, EditKeeps DEF SetGunCon, Edited
<1>7. flash' = flash
  BY DEF http_recv_profile, reset_mapping, AddProfile, DeleteProfile, SelectProfile,
         SetGunCon, Edited
<1> QED
  BY <1>2, <1>3, <1>4, <1>5, <1>6, <1>7 DEF http_recv_profile

\* The chord stores the profiles alone.
LEMMA NextProfileKeeps ==
  ASSUME SettingsInv, NEW ok \in BOOLEAN, rjm_portal_next_profile(ok)
  PROVE  SettingsInv' /\ flash'.slots = flash.slots
<1> DEFINE next == [g_mapping EXCEPT !.active_profile =
                      (@ % Len(g_mapping.profile)) + 1]
<1>1. /\ SettingsOK /\ Together /\ (saved => Loaded = InUse)
  BY DEF SettingsInv, RestartBringsBack
<1>2. PICK index \in 1..Len(g_mapping.profile) :
        next = [g_mapping EXCEPT !.active_profile = index]
  BY <1>1, NextIsAProfile DEF SettingsOK
<1>3. IsMapping(next) /\ BitsOf(next) = BitsOf(g_mapping)
  BY <1>1, <1>2, SelectKeepsBits DEF SettingsOK
<1> HIDE DEF next
<1>4. /\ g_mapping' = next /\ flash' = IF ok THEN [flash EXCEPT !.mapping = next] ELSE flash
      /\ half' = IF ok THEN HalfAfter({"mapping"}) ELSE half
      /\ saved' = (saved /\ ok /\ ~half)
      /\ g_guncon_mask' = g_guncon_mask /\ g_p2_enabled' = g_p2_enabled /\ mixed' = mixed
  BY DEF rjm_portal_next_profile, next
<1>5. CASE ~ok
  BY <1>1, <1>3, <1>4, <1>5, EditKeeps DEF SettingsOK, Together
<1>6. CASE ok
  <2>1. /\ flash'.mapping = next /\ flash'.mask = flash.mask /\ flash'.p2 = flash.p2
        /\ flash'.slots = flash.slots
        /\ flash' \in [mapping : Mappings \cup {Absent}, mask : SUBSET Nat, p2 : BOOLEAN,
                       slots : [Slots -> Maybe]]
    BY <1>1, <1>3, <1>4, <1>6 DEF SettingsOK, IsMapping
  <2>2. half' = (half \/ mixed \/ ~saved)
    BY <1>1, <1>4, <1>6 DEF HalfAfter, SettingsOK
  <2>3. SettingsOK'
    BY <1>1, <1>3, <1>4, <1>6, <2>1, <2>2 DEF SettingsOK
  <2>4. next # Absent
    BY <1>3, AbsentIsNoMapping DEF IsMapping
  <2>5. Loaded.mapping' = next /\ Loaded.mask' = flash.mask /\ Loaded.p2' = flash.p2
    BY <2>1, <2>4 DEF Loaded, LoadedMask
  <2>6. saved => /\ Loaded.mapping = g_mapping /\ Loaded.mask = g_guncon_mask
                 /\ Loaded.p2 = g_p2_enabled
    BY <1>1, EqualSettings
  <2>7. Loaded.p2 = flash.p2
    BY DEF Loaded
  <2>8. /\ ~half => flash.mask = BitsOf(Loaded.mapping)
        /\ ~mixed => g_guncon_mask = BitsOf(g_mapping)
    BY <1>1 DEF Together
  <2>9. ~half' => flash'.mask = BitsOf(Loaded.mapping')
    BY <1>3, <2>1, <2>2, <2>5, <2>6, <2>8
  <2>10. saved' => flash.mask = g_guncon_mask
    <3>1. flash.mapping # Absent => Loaded.mask = flash.mask
      BY DEF Loaded, LoadedMask
    <3>2. flash.mapping = Absent =>
            Loaded.mapping = rjm_config_set_defaults /\ Loaded.mask = {}
      BY DEF Loaded, LoadedMask
    <3> QED
      BY <1>4, <2>6, <2>8, <3>1, <3>2, DefaultsAreMapping
  <2>11. Together'
    BY <1>3, <1>4, <2>8, <2>9 DEF Together, BitsOf
  <2>12. RestartBringsBack'
    BY <1>4, <1>6, <2>5, <2>6, <2>7, <2>10 DEF RestartBringsBack, Loaded, InUse
  <2> QED
    BY <2>1, <2>3, <2>11, <2>12 DEF SettingsInv
<1> QED
  BY <1>4, <1>5, <1>6

\* Slots are stored by themselves, with player 2's setting when it is turned on.
LEMMA PairingKeeps ==
  ASSUME SettingsInv, NEW slot \in Slots, NEW slots \in [Slots -> SlotRecords],
         flash' = SaveSlots(SaveP2(flash, slot), slots),
         g_p2_enabled' = (g_p2_enabled \/ slot = 1),
         UNCHANGED <<g_mapping, g_guncon_mask, historyVars>>
  PROVE  SettingsInv' /\ flash'.slots = AddressesIn(slots)
<1>1. SettingsOK /\ Together /\ (saved => Loaded = InUse)
  BY DEF SettingsInv, RestartBringsBack
<1>2. AddressesIn(slots) \in [Slots -> Maybe]
  BY DEF AddressesIn, SlotRecords
<1>3. /\ flash'.mapping = flash.mapping /\ flash'.mask = flash.mask
      /\ flash'.p2 = (flash.p2 \/ slot = 1) /\ flash'.slots = AddressesIn(slots)
      /\ flash' \in [mapping : Mappings \cup {Absent}, mask : SUBSET Nat, p2 : BOOLEAN,
                     slots : [Slots -> Maybe]]
  BY <1>1, <1>2 DEF SaveSlots, SaveP2, SettingsOK
<1>4. /\ g_mapping' = g_mapping /\ g_guncon_mask' = g_guncon_mask
      /\ saved' = saved /\ half' = half /\ mixed' = mixed
  BY DEF historyVars
<1>5. SettingsOK'
  BY <1>1, <1>3, <1>4 DEF SettingsOK
<1>6. /\ Loaded'.mapping = Loaded.mapping /\ Loaded'.mask = Loaded.mask
      /\ Loaded'.p2 = flash'.p2 /\ Loaded.p2 = flash.p2
  BY <1>3 DEF Loaded, LoadedMask
<1>7. Together'
  BY <1>1, <1>3, <1>4, <1>6 DEF Together, BitsOf
<1>8. RestartBringsBack'
  <2>1. saved => /\ Loaded.mapping = g_mapping /\ Loaded.mask = g_guncon_mask
                 /\ Loaded.p2 = g_p2_enabled
    BY <1>1, EqualSettings
  <2> QED
    BY <1>3, <1>4, <1>6, <2>1 DEF RestartBringsBack, Loaded, InUse
<1> QED
  BY <1>3, <1>5, <1>7, <1>8 DEF SettingsInv

LEMMA SlotsStoredKeeps ==
  ASSUME SettingsInv, NEW slots, slots \in [Slots -> Maybe],
         flash' = [flash EXCEPT !.slots = slots],
         UNCHANGED <<settingsVars, historyVars>>
  PROVE  SettingsInv' /\ flash'.slots = slots
<1>1. SettingsOK /\ Together /\ (saved => Loaded = InUse)
  BY DEF SettingsInv, RestartBringsBack
<1>3. /\ flash'.mapping = flash.mapping /\ flash'.mask = flash.mask
      /\ flash'.p2 = flash.p2 /\ flash'.slots = slots
      /\ flash' \in [mapping : Mappings \cup {Absent}, mask : SUBSET Nat, p2 : BOOLEAN,
                     slots : [Slots -> Maybe]]
  BY <1>1 DEF SettingsOK
<1>4. /\ g_mapping' = g_mapping /\ g_guncon_mask' = g_guncon_mask
      /\ g_p2_enabled' = g_p2_enabled
      /\ saved' = saved /\ half' = half /\ mixed' = mixed
  BY DEF historyVars, settingsVars
<1>5. SettingsOK'
  BY <1>1, <1>3, <1>4 DEF SettingsOK
<1>6. Loaded' = Loaded /\ InUse' = InUse
  BY <1>3, <1>4 DEF Loaded, LoadedMask, InUse
<1>7. Together'
  BY <1>1, <1>3, <1>4, <1>6 DEF Together, BitsOf
<1> QED
  BY <1>1, <1>3, <1>4, <1>5, <1>6, <1>7 DEF SettingsInv, RestartBringsBack

\* A start of the firmware.
LEMMA RestoreKeeps ==
  ASSUME SettingsInv, RestoreSettings, NEW slots, slots \in [Slots -> Maybe],
         flash' = [flash EXCEPT !.slots = slots], half' = half
  PROVE  SettingsInv' /\ flash'.slots = slots
<1>1. SettingsOK /\ Together
  BY DEF SettingsInv
<1>2. /\ flash'.mapping = flash.mapping /\ flash'.mask = flash.mask
      /\ flash'.p2 = flash.p2 /\ flash'.slots = slots
      /\ flash' \in [mapping : Mappings \cup {Absent}, mask : SUBSET Nat, p2 : BOOLEAN,
                     slots : [Slots -> Maybe]]
  BY <1>1 DEF SettingsOK
<1>3. /\ g_mapping' = Loaded.mapping /\ g_guncon_mask' = Loaded.mask
      /\ g_p2_enabled' = Loaded.p2 /\ saved' = TRUE
      /\ mixed' = (half /\ flash.mapping # Absent)
  BY DEF RestoreSettings
<1>4. /\ Loaded.mask = LoadedMask /\ Loaded.p2 = flash.p2
      /\ IsMapping(Loaded.mapping) /\ LoadedMask \in SUBSET Nat
      /\ flash.mapping = Absent =>
           Loaded.mapping = rjm_config_set_defaults /\ LoadedMask = {}
      /\ flash.mapping # Absent => LoadedMask = flash.mask
  BY <1>1, LoadedRecords
<1>5. SettingsOK'
  BY <1>1, <1>2, <1>3, <1>4 DEF SettingsOK
<1>6. Loaded' = Loaded
  BY <1>2 DEF Loaded, LoadedMask
<1>7. ~mixed' => g_guncon_mask' = BitsOf(g_mapping')
  BY <1>1, <1>3, <1>4, DefaultsAreMapping DEF Together
<1>8. Together'
  BY <1>1, <1>2, <1>3, <1>6, <1>7 DEF Together, BitsOf
<1>9. RestartBringsBack'
  BY <1>3, <1>6 DEF RestartBringsBack, Loaded, InUse
<1> QED
  BY <1>2, <1>5, <1>8, <1>9 DEF SettingsInv

LEMMA SettingsSame ==
  ASSUME SettingsInv, UNCHANGED storeVars
  PROVE  SettingsInv' /\ flash' = flash /\ g_p2_enabled' = g_p2_enabled
<1>1. /\ g_mapping' = g_mapping /\ g_guncon_mask' = g_guncon_mask
      /\ g_p2_enabled' = g_p2_enabled /\ flash' = flash
      /\ saved' = saved /\ half' = half /\ mixed' = mixed
  BY DEF storeVars, settingsVars, historyVars
<1>2. Loaded' = Loaded /\ InUse' = InUse
  BY <1>1 DEF Loaded, LoadedMask, InUse
<1>3. SettingsOK' /\ Together' /\ RestartBringsBack'
  BY <1>1, <1>2 DEF SettingsInv, SettingsOK, Together, RestartBringsBack, BitsOf, IsMapping
<1> QED
  BY <1>1, <1>3 DEF SettingsInv

LEMMA SaveRequestKeeps ==
  ASSUME SettingsInv, NEW n \in 0..Len(SaveOrder), config_save(n)
  PROVE  SettingsInv' /\ flash'.slots = flash.slots /\ UNCHANGED settingsVars
<1> DEFINE what == {SaveOrder[i] : i \in 1..n}
           all == n = Len(SaveOrder)
<1>1. Len(SaveOrder) = 4 /\ SaveOrder[1] = "mapping" /\ SaveOrder[2] = "p2"
      /\ SaveOrder[4] = "mask"
  BY DEF SaveOrder
<1>2. all => {"mapping", "mask", "p2"} \subseteq what
  BY <1>1
<1>3. all \in BOOLEAN
  OBVIOUS
<1>4. /\ flash' = Stored(what) /\ half' = HalfAfter(what)
      /\ saved' = ((saved /\ ~half) \/ all) /\ UNCHANGED <<settingsVars, mixed>>
  BY DEF config_save
<1> HIDE DEF what, all
<1> QED
  BY <1>2, <1>3, <1>4, StoreKeeps

LEMMA DoneSavesKeeps ==
  ASSUME SettingsInv, NEW what, DoneSaves(what)
  PROVE  SettingsInv' /\ flash'.slots = flash.slots /\ UNCHANGED settingsVars
<1> DEFINE all == what = ToSet(SaveOrder)
<1>1. DOMAIN SaveOrder = 1..4 /\ SaveOrder[1] = "mapping" /\ SaveOrder[2] = "p2"
      /\ SaveOrder[4] = "mask"
  BY DEF SaveOrder
<1>2. all => {"mapping", "mask", "p2"} \subseteq what
  BY <1>1 DEF ToSet
<1>3. all \in BOOLEAN
  OBVIOUS
<1>4. /\ flash' = Stored(what) /\ half' = HalfAfter(what)
      /\ saved' = ((saved /\ ~half) \/ all) /\ UNCHANGED <<settingsVars, mixed>>
  BY DEF DoneSaves
<1> HIDE DEF all
<1> QED
  BY <1>2, <1>3, <1>4, StoreKeeps

-----------------------------------------------------------------------------
(***************************************************************************)
(* Slots and controllers                                                   *)
(***************************************************************************)

LEMMA PlayerOf ==
  ASSUME NEW slots, NEW d
  PROVE  \/ /\ player_for_address(slots, d) = NoPlayer
            /\ \A p \in Slots : slots[p].address # d
         \/ /\ player_for_address(slots, d) \in Slots
            /\ player_for_address(slots, d) # NoPlayer
            /\ slots[player_for_address(slots, d)].address = d
            /\ player_for_address(slots, d) = 1 => slots[0].address # d
  BY DEF player_for_address, NoPlayer, Slots

LEMMA ConnectedSlots ==
  ASSUME NEW slots \in [Slots -> SlotRecords], NEW d, NEW on \in BOOLEAN
  PROVE  /\ set_connected(slots, d, on) \in [Slots -> SlotRecords]
         /\ \A s \in Slots : set_connected(slots, d, on)[s].address = slots[s].address
         /\ AddressesIn(set_connected(slots, d, on)) = AddressesIn(slots)
<1>1. /\ set_connected(slots, d, on) \in [Slots -> SlotRecords]
      /\ \A s \in Slots : set_connected(slots, d, on)[s].address = slots[s].address
  BY DEF set_connected, SlotRecords
<1> QED
  BY <1>1 DEF AddressesIn

\* An address belongs to one slot.
LEMMA PairedSlots ==
  ASSUME NEW slots \in [Slots -> SlotRecords], NEW slot \in Slots, NEW d \in Addresses,
         NEW paired, paired = complete_pairing(slots, slot, d)
  PROVE  /\ paired \in [Slots -> SlotRecords]
         /\ paired[0].address # None => paired[0].address # paired[1].address
  BY DEF complete_pairing, SlotRecords, EmptySlot, Slots, Maybe

LEMMA ForgottenDevices ==
  ASSUME NEW devices \in [Addresses -> {"away", "active", "leaving"}], NEW d \in Maybe
  PROVE  /\ Forgotten(devices, d) \in [Addresses -> {"away", "active", "leaving"}]
         /\ \A e \in Addresses : devices[e] # "away" => Forgotten(devices, d)[e] # "away"
  BY DEF Forgotten, Maybe

LEMMA RemappedInput ==
  ASSUME NEW inputs \in [Slots -> Maybe], NEW p2 \in BOOLEAN
  PROVE  /\ Remapped(inputs, p2) \in [Slots -> Maybe]
         /\ \A p \in Slots : Remapped(inputs, p2)[p] # None =>
              /\ g_input_enabled /\ Remapped(inputs, p2)[p] = inputs[p]
              /\ p = 1 => p2
  BY DEF Remapped, Maybe

LEMMA Begins == ASSUME Init PROVE IInv
<1>1. PICK addresses : /\ InitSettings(addresses)
                       /\ addresses = IF user = "edits"
                                      THEN [EmptySlots EXCEPT ![0] = Editors]
                                      ELSE EmptySlots
  BY DEF Init
<1>2. Editors \in Addresses
  BY JoypadBackendAssumption DEF Editors
<1>3. addresses \in [Slots -> Maybe] /\ addresses[1] = None
  BY <1>1, <1>2 DEF EmptySlots, Slots, Maybe
<1>4. SettingsInv
  <2>1. /\ g_mapping = rjm_config_set_defaults /\ g_guncon_mask = {}
        /\ g_p2_enabled = TRUE /\ saved = TRUE /\ half = FALSE /\ mixed = FALSE
        /\ flash = [mapping |-> Absent, mask |-> {}, p2 |-> TRUE, slots |-> addresses]
    BY <1>1 DEF InitSettings
  <2>2. SettingsOK
    BY <1>3, <2>1, DefaultsAreMapping DEF SettingsOK
  <2>3. /\ Loaded.mapping = rjm_config_set_defaults /\ Loaded.mask = {}
        /\ Loaded.p2 = TRUE
    BY <2>1 DEF Loaded, LoadedMask
  <2>4. Together
    BY <2>1, <2>3, DefaultsAreMapping DEF Together
  <2>5. RestartBringsBack
    BY <2>1, <2>3, EqualSettings DEF RestartBringsBack
  <2> QED
    BY <2>2, <2>4, <2>5 DEF SettingsInv
<1>5. flash.slots = addresses
  BY <1>1 DEF InitSettings
<1>6. /\ g_slots = SlotsFrom(addresses)
      /\ device = [d \in Addresses |-> "away"]
      /\ g_pairing_slot = NoPlayer /\ g_started = FALSE /\ g_pops_context = FALSE
      /\ input = EmptySlots /\ g_input_enabled = TRUE /\ reported = EmptySlots
      /\ aim = None /\ task = Idle
  BY <1>5 DEF Init
<1>7. ControllersOK
  BY <1>3, <1>6 DEF ControllersOK, SlotsFrom, SlotRecords, EmptySlots, Maybe
<1>8. SlotsKept
  BY <1>3, <1>5, <1>6 DEF SlotsKept, SlotsFrom, AddressesIn, Slots
<1>9. PortalFirst /\ InputOfSlot /\ ReportedInput
  BY <1>6 DEF PortalFirst, InputOfSlot, ReportedInput, EmptySlots, Idle
<1> QED
  BY <1>4, <1>7, <1>8, <1>9 DEF IInv, ControllersInv

-----------------------------------------------------------------------------
(***************************************************************************)
(* The steps                                                               *)
(***************************************************************************)

LEMMA RestartKeeps == ASSUME IInv, Restart PROVE IInv'
<1>1. SettingsInv /\ flash.slots \in [Slots -> Maybe]
  BY DEF IInv, SettingsInv, SettingsOK
<1>2. PICK slots : /\ slots = IF flash.slots[0] # None /\ flash.slots[0] = flash.slots[1]
                              THEN [flash.slots EXCEPT ![1] = None] ELSE flash.slots
                   /\ g_slots' = SlotsFrom(slots)
                   /\ flash' = [flash EXCEPT !.slots = slots]
  BY DEF Restart
<1>3. /\ slots \in [Slots -> Maybe]
      /\ slots[0] # None => slots[0] # slots[1]
  BY <1>1, <1>2 DEF Slots, Maybe
<1>4. SettingsInv' /\ flash'.slots = slots
  BY <1>1, <1>2, <1>3, RestoreKeeps DEF Restart
<1>5. /\ device' = [d \in Addresses |-> "away"]
      /\ g_pairing_slot' = NoPlayer /\ g_started' = FALSE /\ g_pops_context' = FALSE
      /\ input' = EmptySlots /\ g_input_enabled' = TRUE /\ reported' = EmptySlots
      /\ aim' = None /\ task' = Idle
  BY DEF Restart
<1>6. ControllersOK'
  BY <1>2, <1>3, <1>5 DEF ControllersOK, SlotsFrom, SlotRecords, EmptySlots, Maybe
<1>7. SlotsKept'
  BY <1>2, <1>3, <1>4 DEF SlotsKept, SlotsFrom, AddressesIn, Slots
<1>8. PortalFirst' /\ InputOfSlot' /\ ReportedInput'
  BY <1>5 DEF PortalFirst, InputOfSlot, ReportedInput, EmptySlots, Idle
<1> QED
  BY <1>4, <1>6, <1>7, <1>8 DEF IInv, ControllersInv

\* The callbacks that leave settings and slots alone.
LEMMA QuietKeeps ==
  ASSUME IInv,
         \/ startup_timer_handler
         \/ \E d \in Addresses : Connect(d) \/ EventOfUnknown(d)
         \/ \E is_pops \in BOOLEAN : rjm_controller_set_pops_context(is_pops)
         \/ rjm_portal_start
         \/ \E slot \in Slots : PairRequest(slot)
  PROVE  IInv'
<1>1. SettingsInv' /\ flash' = flash /\ g_p2_enabled' = g_p2_enabled
  BY SettingsSame DEF IInv, startup_timer_handler, Connect, EventOfUnknown,
     rjm_controller_set_pops_context, rjm_portal_start, PairRequest
<1>2. g_slots' = g_slots /\ input' = input /\ task' = task
  BY DEF startup_timer_handler, Connect, EventOfUnknown, rjm_controller_set_pops_context,
     rjm_portal_start, PairRequest, pairVars, inputVars
<1>3. SlotsKept'
  BY <1>1, <1>2 DEF IInv, ControllersInv, SlotsKept, AddressesIn
<1>4. ControllersOK /\ PortalFirst /\ InputOfSlot /\ ReportedInput /\ g_p2_enabled \in BOOLEAN
  BY DEF IInv, ControllersInv, SettingsInv, SettingsOK
<1>5. CASE startup_timer_handler
  <2>1. UNCHANGED <<device, pairVars, portalVars, g_pops_context, inputVars, pspVars>>
    BY <1>5 DEF startup_timer_handler
  <2> QED
    BY <1>1, <1>2, <1>3, <1>4, <2>1 DEF IInv, ControllersInv, ControllersOK, PortalFirst,
       InputOfSlot, ReportedInput, pairVars, portalVars, inputVars, pspVars,
       p2_runtime_enabled
<1>6. CASE \E d \in Addresses : Connect(d) \/ EventOfUnknown(d)
  <2>1. UNCHANGED <<pairVars, portalVars, g_pops_context, inputVars, pspVars>>
    BY <1>6 DEF Connect, EventOfUnknown
  <2>2. /\ device' \in [Addresses -> {"away", "active", "leaving"}]
        /\ \A e \in Addresses : device[e] # "away" => device'[e] # "away"
    <3>1. PICK d \in Addresses : Connect(d) \/ EventOfUnknown(d)
      BY <1>6
    <3>2. CASE Connect(d)
      BY <1>4, <3>2 DEF Connect, ControllersOK
    <3>3. CASE EventOfUnknown(d)
      BY <1>4, <3>3, ForgottenDevices DEF EventOfUnknown, ControllersOK, Maybe
    <3> QED
      BY <3>1, <3>2, <3>3
  <2>3. InputOfSlot'
    BY <1>2, <1>4, <2>1, <2>2 DEF InputOfSlot, ControllersOK, Maybe, pspVars
  <2> QED
    BY <1>1, <1>2, <1>3, <1>4, <2>1, <2>2, <2>3 DEF IInv, ControllersInv, ControllersOK,
       PortalFirst, ReportedInput, pairVars, portalVars, inputVars, pspVars,
       p2_runtime_enabled
<1>7. CASE \E is_pops \in BOOLEAN : rjm_controller_set_pops_context(is_pops)
  <2>1. PICK is_pops \in BOOLEAN : rjm_controller_set_pops_context(is_pops)
    BY <1>7
  <2>2. /\ UNCHANGED <<device, pairVars, portalVars, inputVars, g_input_enabled>>
        /\ g_pops_context' = is_pops /\ aim' = IF is_pops THEN aim ELSE None
        /\ reported' = Remapped(input, is_pops /\ g_p2_enabled)
    BY <2>1 DEF rjm_controller_set_pops_context
  <2>3. PICK p2 \in BOOLEAN : p2 = (is_pops /\ g_p2_enabled)
    BY <1>4
  <2>4. /\ reported' \in [Slots -> Maybe]
        /\ \A p \in Slots : reported'[p] # None =>
             /\ g_input_enabled /\ reported'[p] = input[p] /\ (p = 1 => p2)
    BY <1>4, <2>2, <2>3, RemappedInput DEF ControllersOK
  <2>5. ReportedInput'
    BY <1>1, <1>2, <1>4, <2>2, <2>3, <2>4 DEF ReportedInput, p2_runtime_enabled
  <2> QED
    BY <1>1, <1>2, <1>3, <1>4, <2>2, <2>4, <2>5 DEF IInv, ControllersInv, ControllersOK,
       PortalFirst, InputOfSlot, pairVars, portalVars
<1>8. CASE rjm_portal_start
  <2>1. /\ UNCHANGED <<device, pairVars, g_pops_context>>
        /\ g_input_enabled' = FALSE /\ reported' = EmptySlots /\ aim' = None
        /\ g_started' \in BOOLEAN
    BY <1>8 DEF rjm_portal_start
  <2> QED
    BY <1>1, <1>2, <1>3, <1>4, <2>1 DEF IInv, ControllersInv, ControllersOK, PortalFirst,
       InputOfSlot, ReportedInput, pairVars, EmptySlots, Maybe
<1>9. CASE \E slot \in Slots : PairRequest(slot)
  <2>1. PICK slot \in Slots : PairRequest(slot)
    BY <1>9
  <2>2. /\ UNCHANGED <<portalVars, g_pops_context, inputVars, pspVars>>
        /\ g_started /\ g_pairing_slot' = slot
        /\ device' = Forgotten(device, g_slots[slot].address)
    BY <2>1 DEF PairRequest, Serves
  <2>3. g_slots[slot].address \in Maybe
    BY <1>4 DEF ControllersOK, SlotRecords
  <2>4. device' \in [Addresses -> {"away", "active", "leaving"}]
    BY <1>4, <2>2, <2>3, ForgottenDevices DEF ControllersOK
  <2>5. ~g_input_enabled
    BY <1>4, <2>2 DEF PortalFirst
  <2> QED
    BY <1>1, <1>2, <1>3, <1>4, <2>2, <2>4, <2>5 DEF IInv, ControllersInv, ControllersOK,
       PortalFirst, InputOfSlot, ReportedInput, portalVars, inputVars, pspVars,
       p2_runtime_enabled
<1> QED
  BY <1>5, <1>6, <1>7, <1>8, <1>9

\* While the portal is open nothing is reported, so that the requests only have
\* to keep the slots apart and in flash.
LEMMA DisabledKeeps ==
  ASSUME IInv, ~g_input_enabled, g_input_enabled' = FALSE, SettingsInv', SlotsKept',
         device' \in [Addresses -> {"away", "active", "leaving"}],
         g_slots' \in [Slots -> SlotRecords], g_pairing_slot' \in Slots \cup {NoPlayer},
         UNCHANGED <<g_started, g_pops_context, inputVars, reported, aim>>,
         \/ task' = task
         \/ task' = Idle
         \/ task'.pc = "act"
         \/ task'.pc = "pair" /\ task'.conn \in Addresses /\ task'.slot \in Slots
  PROVE  IInv'
<1>1. ControllersOK /\ ReportedInput
  BY DEF IInv, ControllersInv
<1>2. ControllersOK'
  BY <1>1 DEF ControllersOK, inputVars
<1>3. PortalFirst' /\ InputOfSlot' /\ ReportedInput'
  BY <1>1 DEF PortalFirst, InputOfSlot, ReportedInput
<1> QED
  BY <1>2, <1>3 DEF IInv, ControllersInv

LEMMA RequestsKeep ==
  ASSUME IInv,
         \/ \E slot \in Slots : UnpairRequest(slot)
         \/ P2Request \/ ProfileRequest \/ SaveRequest \/ DoneRequest
  PROVE  IInv'
<1>1. /\ SettingsInv /\ SettingsOK /\ ControllersOK /\ SlotsKept
      /\ g_p2_enabled \in BOOLEAN /\ mixed \in BOOLEAN
      /\ IsMapping(g_mapping) /\ g_guncon_mask \in SUBSET Nat
      /\ (~mixed => g_guncon_mask = BitsOf(g_mapping))
  BY DEF IInv, SettingsInv, SettingsOK, Together, ControllersInv
<1>2. ~g_input_enabled
  BY DEF IInv, ControllersInv, PortalFirst, UnpairRequest, P2Request, ProfileRequest,
         SaveRequest, DoneRequest, Serves
<1>3. /\ device \in [Addresses -> {"away", "active", "leaving"}]
      /\ g_slots \in [Slots -> SlotRecords] /\ g_pairing_slot \in Slots \cup {NoPlayer}
  BY <1>1 DEF ControllersOK
<1>4. /\ UNCHANGED <<g_started, g_pops_context, inputVars, reported, aim, task>>
      /\ g_input_enabled' = FALSE /\ g_pairing_slot' = g_pairing_slot
  BY <1>1, <1>2 DEF ControllersOK, UnpairRequest, P2Request, ProfileRequest, SaveRequest,
     DoneRequest, pspVars, portalVars, pairVars
<1>5. CASE \E slot \in Slots : UnpairRequest(slot)
  <2>1. PICK slot \in Slots : UnpairRequest(slot)
    BY <1>5
  <2> DEFINE d == g_slots[slot].address
             slots == [s \in Slots |-> IF g_slots[s].address = d THEN EmptySlot
                                       ELSE g_slots[s]]
  <2>2. /\ d # None /\ device' = Forgotten(device, d) /\ g_slots' = slots
        /\ flash' = SaveSlots(flash, slots)
        /\ UNCHANGED <<settingsVars, historyVars>>
    BY <2>1 DEF UnpairRequest
  <2>3. d \in Maybe
    BY <1>3 DEF SlotRecords
  <2>4. device' \in [Addresses -> {"away", "active", "leaving"}]
    BY <1>3, <2>2, <2>3, ForgottenDevices
  <2>5. /\ slots \in [Slots -> SlotRecords]
        /\ slots[0].address # None => slots[0].address # slots[1].address
    BY <1>1, <1>3, <2>2 DEF SlotRecords, EmptySlot, Slots, Maybe, SlotsKept
  <2> HIDE DEF slots
  <2>6. AddressesIn(slots) \in [Slots -> Maybe]
    BY <2>5 DEF AddressesIn, SlotRecords
  <2>7. SettingsInv' /\ flash'.slots = AddressesIn(slots)
    BY <1>1, <2>2, <2>6, SlotsStoredKeeps DEF SaveSlots
  <2>8. SlotsKept'
    BY <2>2, <2>5, <2>7 DEF SlotsKept, AddressesIn
  <2> QED
    BY <1>2, <1>3, <1>4, <2>2, <2>4, <2>5, <2>7, <2>8, DisabledKeeps
<1>6. CASE P2Request
  <2>1. /\ UNCHANGED <<g_mapping, g_guncon_mask, flash, half, mixed, device, g_slots>>
        /\ g_p2_enabled' = ~g_p2_enabled /\ saved' = FALSE
    BY <1>6 DEF P2Request, pairVars
  <2>2. /\ IsMapping(g_mapping') /\ g_guncon_mask' \in SUBSET Nat /\ mixed' \in BOOLEAN
        /\ g_p2_enabled' \in BOOLEAN
        /\ (~mixed' => g_guncon_mask' = BitsOf(g_mapping'))
    BY <1>1, <2>1
  <2>3. SettingsInv'
    BY <1>1, <2>1, <2>2, EditKeeps
  <2>4. SlotsKept'
    BY <1>1, <2>1 DEF SlotsKept, AddressesIn
  <2> QED
    BY <1>2, <1>3, <1>4, <2>1, <2>3, <2>4, DisabledKeeps
<1>7. CASE ProfileRequest
  <2>1. SettingsInv' /\ flash' = flash /\ device' = device /\ g_slots' = g_slots
    BY <1>1, <1>7, ProfileRequestKeeps DEF ProfileRequest, pairVars
  <2>2. SlotsKept'
    BY <1>1, <2>1 DEF SlotsKept, AddressesIn
  <2> QED
    BY <1>2, <1>3, <1>4, <2>1, <2>2, DisabledKeeps
<1>8. CASE SaveRequest
  <2>1. SettingsInv' /\ flash'.slots = flash.slots /\ device' = device /\ g_slots' = g_slots
    BY <1>1, <1>8, SaveRequestKeeps DEF SaveRequest, pairVars
  <2>2. SlotsKept'
    BY <1>1, <2>1 DEF SlotsKept, AddressesIn
  <2> QED
    BY <1>2, <1>3, <1>4, <2>1, <2>2, DisabledKeeps
<1>9. CASE DoneRequest
  <2>1. SettingsInv' /\ flash'.slots = flash.slots
    BY <1>1, <1>9, DoneSavesKeeps DEF DoneRequest
  <2>2. /\ g_slots' = g_slots
        /\ device' = [d \in Addresses |-> IF device[d] = "away" THEN "away" ELSE "leaving"]
    BY <1>9 DEF DoneRequest, pairVars
  <2>3. device' \in [Addresses -> {"away", "active", "leaving"}]
    BY <1>3, <2>2
  <2>4. SlotsKept'
    BY <1>1, <2>1, <2>2 DEF SlotsKept, AddressesIn
  <2> QED
    BY <1>2, <1>3, <1>4, <2>1, <2>2, <2>3, <2>4, DisabledKeeps
<1> QED
  BY <1>5, <1>6, <1>7, <1>8, <1>9

\* Input that completes a pairing, which needs the portal.
LEMMA EventPairsKeeps ==
  ASSUME IInv, NEW d \in Addresses, EventPairs(d)
  PROVE  IInv'
<1> DEFINE slot == g_pairing_slot
<1>1. PICK slots : slots = complete_pairing(g_slots, slot, d)
  OBVIOUS
<1>2. /\ SettingsInv /\ ControllersOK /\ ReportedInput /\ slot \in Slots /\ g_p2_enabled \in BOOLEAN
      /\ g_slots \in [Slots -> SlotRecords]
      /\ device \in [Addresses -> {"away", "active", "leaving"}]
      /\ g_slots[slot].address \in Maybe
  BY DEF IInv, ControllersInv, ControllersOK, SettingsInv, SettingsOK, EventPairs, SlotRecords
<1>3. ~g_input_enabled
  BY DEF IInv, ControllersInv, PortalFirst, EventPairs
<1>4. /\ slots \in [Slots -> SlotRecords]
      /\ slots[0].address # None => slots[0].address # slots[1].address
  BY <1>1, <1>2, PairedSlots
<1>5. /\ device' = Forgotten(device, g_slots[slot].address)
      /\ g_p2_enabled' = (g_p2_enabled \/ slot = 1)
      /\ flash' = SaveSlots(SaveP2(flash, slot), slots)
      /\ UNCHANGED <<g_mapping, g_guncon_mask, historyVars>>
      /\ UNCHANGED <<g_started, g_pops_context, g_input_enabled, task>>
      /\ UseInput(d, slot, slots, NoPlayer, g_p2_enabled \/ slot = 1, FALSE)
  BY <1>1 DEF EventPairs, portalVars
<1>6. SettingsInv' /\ flash'.slots = AddressesIn(slots)
  BY <1>2, <1>4, <1>5, PairingKeeps
<1>7. PICK connected : connected = set_connected(slots, d, TRUE)
  OBVIOUS
<1>8. /\ connected \in [Slots -> SlotRecords] /\ AddressesIn(connected) = AddressesIn(slots)
      /\ \A s \in Slots : connected[s].address = slots[s].address
  BY <1>4, <1>7, ConnectedSlots
<1>9. /\ input' = [input EXCEPT ![slot] = d]
      /\ aim' = IF slot = 1 THEN aim
                ELSE IF g_input_enabled /\ g_pops_context /\ rjm_portal_guncon_enabled
                        /\ FALSE
                THEN d ELSE None
      /\ g_slots' = slots \/ g_slots' = connected
      /\ g_pairing_slot' = NoPlayer
      /\ reported' = Remapped([input EXCEPT ![slot] = d],
                              g_pops_context /\ (g_p2_enabled \/ slot = 1))
  BY <1>5, <1>7 DEF UseInput
<1>10. aim' = None /\ reported' = [p \in Slots |-> None]
  BY <1>2, <1>3, <1>9 DEF ReportedInput, Remapped
<1>11. /\ g_slots' \in [Slots -> SlotRecords] /\ AddressesIn(g_slots)' = AddressesIn(slots)
       /\ g_slots'[0].address # None => g_slots'[0].address # g_slots'[1].address
  BY <1>4, <1>8, <1>9 DEF AddressesIn, Slots
<1>12. SlotsKept'
  BY <1>6, <1>11 DEF SlotsKept
<1>13. device' \in [Addresses -> {"away", "active", "leaving"}]
  BY <1>2, <1>5, ForgottenDevices
<1>14. input' \in [Slots -> Maybe] /\ reported' \in [Slots -> Maybe]
  BY <1>2, <1>9, <1>10 DEF ControllersOK, Maybe
<1>15. ControllersOK'
  BY <1>2, <1>5, <1>9, <1>11, <1>13, <1>14 DEF ControllersOK
<1>16. PortalFirst' /\ InputOfSlot' /\ ReportedInput'
  BY <1>3, <1>5, <1>10 DEF PortalFirst, InputOfSlot, ReportedInput
<1> QED
  BY <1>6, <1>12, <1>15, <1>16 DEF IInv, ControllersInv

\* Input of a player's controller, perhaps with the chord.
LEMMA EventOfPlayerKeeps ==
  ASSUME IInv, NEW d \in Addresses, EventOfPlayer(d)
  PROVE  IInv'
<1> DEFINE player == player_for_address(g_slots, d)
<1>1. /\ SettingsInv /\ ControllersOK /\ ReportedInput /\ SlotsKept /\ PortalFirst
      /\ InputOfSlot /\ g_p2_enabled \in BOOLEAN /\ half \in BOOLEAN
      /\ g_slots \in [Slots -> SlotRecords] /\ input \in [Slots -> Maybe]
  BY DEF IInv, ControllersInv, ControllersOK, SettingsInv, SettingsOK
<1>2. player \in Slots /\ g_slots[player].address = d /\ device[d] # "away"
  BY PlayerOf DEF EventOfPlayer
<1>3. /\ UNCHANGED <<device, g_started, g_pops_context, g_input_enabled, task>>
      /\ \E moves \in BOOLEAN :
           UseInput(d, player, g_slots, g_pairing_slot, g_p2_enabled, moves)
  BY DEF EventOfPlayer, portalVars
<1>4. /\ SettingsInv' /\ flash'.slots = flash.slots /\ g_p2_enabled' = g_p2_enabled
  <2>1. \/ \E ok \in {TRUE, half} : rjm_portal_next_profile(ok)
        \/ UNCHANGED storeVars
    BY DEF EventOfPlayer, NextProfile
  <2>2. CASE UNCHANGED storeVars
    BY <1>1, <2>2, SettingsSame
  <2>3. CASE \E ok \in {TRUE, half} : rjm_portal_next_profile(ok)
    <3>1. PICK ok \in BOOLEAN : rjm_portal_next_profile(ok)
      BY <1>1, <2>3
    <3> QED
      BY <1>1, <3>1, NextProfileKeeps DEF rjm_portal_next_profile
  <2> QED
    BY <2>1, <2>2, <2>3
<1>5. PICK connected : connected = set_connected(g_slots, d, TRUE)
  OBVIOUS
<1>6. /\ connected \in [Slots -> SlotRecords]
      /\ AddressesIn(connected) = AddressesIn(g_slots)
      /\ \A s \in Slots : connected[s].address = g_slots[s].address
  BY <1>1, <1>5, ConnectedSlots
<1>7. PICK p2 \in BOOLEAN : p2 = (g_pops_context /\ g_p2_enabled)
  OBVIOUS
<1>8. PICK inputs : inputs = [input EXCEPT ![player] = d]
  OBVIOUS
<1>9. /\ input' = inputs
      /\ \/ aim' = IF player = 1 THEN aim ELSE None
         \/ player # 1 /\ aim' = d /\ g_input_enabled /\ g_pops_context
      /\ g_slots' = g_slots \/ g_slots' = connected
      /\ g_pairing_slot' = g_pairing_slot
      /\ reported' = Remapped(inputs, p2)
  BY <1>3, <1>5, <1>7, <1>8 DEF UseInput
<1>10. /\ inputs \in [Slots -> Maybe] /\ inputs[player] = d
       /\ \A p \in Slots : p # player => inputs[p] = input[p]
  BY <1>1, <1>2, <1>8 DEF Maybe
<1>11. /\ g_slots' \in [Slots -> SlotRecords] /\ AddressesIn(g_slots)' = AddressesIn(g_slots)
       /\ \A s \in Slots : g_slots'[s].address = g_slots[s].address
  BY <1>1, <1>6, <1>9 DEF AddressesIn
<1>12. SlotsKept'
  BY <1>1, <1>4, <1>11 DEF SlotsKept, Slots
<1>13. /\ reported' \in [Slots -> Maybe]
       /\ \A p \in Slots : reported'[p] # None =>
            /\ g_input_enabled /\ reported'[p] = inputs[p] /\ (p = 1 => p2)
  BY <1>9, <1>10, RemappedInput
<1>14. ControllersOK'
  BY <1>1, <1>3, <1>9, <1>10, <1>11, <1>13 DEF ControllersOK
<1>15. PortalFirst'
  BY <1>1, <1>3, <1>9 DEF PortalFirst
<1>16. InputOfSlot'
  BY <1>1, <1>2, <1>3, <1>9, <1>10, <1>11 DEF InputOfSlot
<1>17. ReportedInput'
  <2>1. aim' # None => g_input_enabled' /\ g_pops_context' /\ aim' = input'[0]
    BY <1>1, <1>2, <1>3, <1>9, <1>10 DEF ReportedInput, Slots
  <2> QED
    BY <1>3, <1>4, <1>7, <1>9, <1>13, <2>1 DEF ReportedInput, p2_runtime_enabled
<1> QED
  BY <1>4, <1>12, <1>14, <1>15, <1>16, <1>17 DEF IInv, ControllersInv

LEMMA DisconnectedKeeps ==
  ASSUME IInv, NEW d \in Addresses, rjm_joypad_device_disconnected(d)
  PROVE  IInv'
<1> DEFINE player == player_for_address(g_slots, d)
<1>1. /\ SettingsInv /\ ControllersOK /\ ReportedInput /\ SlotsKept /\ PortalFirst
      /\ InputOfSlot /\ g_slots \in [Slots -> SlotRecords]
      /\ input \in [Slots -> Maybe] /\ reported \in [Slots -> Maybe]
  BY DEF IInv, ControllersInv, ControllersOK
<1>2. SettingsInv' /\ flash' = flash /\ g_p2_enabled' = g_p2_enabled
  BY <1>1, SettingsSame DEF rjm_joypad_device_disconnected
<1>3. /\ UNCHANGED <<g_pairing_slot, g_started, g_pops_context, g_input_enabled, task>>
      /\ device' = [device EXCEPT ![d] = "away"]
      /\ g_slots' = set_connected(g_slots, d, FALSE)
  BY DEF rjm_joypad_device_disconnected, portalVars
<1>4. /\ g_slots' \in [Slots -> SlotRecords] /\ AddressesIn(g_slots)' = AddressesIn(g_slots)
      /\ \A s \in Slots : g_slots'[s].address = g_slots[s].address
  BY <1>1, <1>3, ConnectedSlots DEF AddressesIn
<1>5. SlotsKept'
  BY <1>1, <1>2, <1>4 DEF SlotsKept, Slots
<1>6. device' \in [Addresses -> {"away", "active", "leaving"}]
      /\ \A e \in Addresses : e # d => device'[e] = device[e]
  BY <1>1, <1>3 DEF ControllersOK
<1>7. CASE player = NoPlayer
  <2>1. input' = input /\ reported' = reported /\ aim' = aim
    BY <1>7 DEF rjm_joypad_device_disconnected, inputVars
  <2>2. \A s \in Slots : g_slots[s].address # d
    BY <1>7, PlayerOf
  <2>3. InputOfSlot'
    <3> SUFFICES ASSUME g_input_enabled, NEW p \in Slots, input[p] # None
                 PROVE  g_slots'[p].address = input[p] /\ device'[input[p]] # "away"
      BY <1>3, <2>1, Zenon DEF InputOfSlot
    <3>1. g_slots[p].address = input[p] /\ device[input[p]] # "away"
      BY <1>1 DEF InputOfSlot
    <3>2. input[p] \in Addresses /\ input[p] # d
      BY <1>1, <2>2, <3>1 DEF Maybe
    <3> QED
      BY <1>4, <1>6, <3>1, <3>2
  <2>4. ControllersOK' /\ PortalFirst'
    BY <1>1, <1>3, <1>4, <1>6, <2>1 DEF ControllersOK, PortalFirst
  <2>5. ReportedInput'
    BY <1>1, <1>2, <1>3, <2>1 DEF ReportedInput, p2_runtime_enabled
  <2> QED
    BY <1>2, <1>5, <2>3, <2>4, <2>5 DEF IInv, ControllersInv
<1>8. CASE player # NoPlayer
  <2>1. /\ player \in Slots /\ g_slots[player].address = d
        /\ player = 1 => g_slots[0].address # d
    BY <1>8, PlayerOf
  <2>2. /\ input' = [input EXCEPT ![player] = None]
        /\ reported' = [reported EXCEPT ![player] = None]
        /\ aim' = IF player = 0 THEN None ELSE aim
    BY <1>8 DEF rjm_joypad_device_disconnected, Released
  <2>3. /\ input' \in [Slots -> Maybe] /\ reported' \in [Slots -> Maybe]
        /\ input'[player] = None /\ reported'[player] = None
        /\ \A p \in Slots : p # player => input'[p] = input[p] /\ reported'[p] = reported[p]
    BY <1>1, <2>1, <2>2 DEF Maybe
  <2>4. InputOfSlot'
    <3> SUFFICES ASSUME g_input_enabled', NEW p \in Slots, input'[p] # None
                 PROVE  g_slots'[p].address = input'[p] /\ device'[input'[p]] # "away"
      BY DEF InputOfSlot
    <3>1. p # player /\ input'[p] = input[p]
      BY <2>3
    <3>2. g_slots[p].address = input[p] /\ device[input[p]] # "away" /\ input[p] \in Addresses
      BY <1>1, <1>3, <3>1 DEF InputOfSlot, Maybe
    <3>3. input[p] # d
      BY <1>1, <2>1, <3>1, <3>2 DEF SlotsKept, Slots
    <3> QED
      BY <1>4, <1>6, <3>1, <3>2, <3>3
  <2>5. ControllersOK' /\ PortalFirst'
    BY <1>1, <1>3, <1>4, <1>6, <2>3 DEF ControllersOK, PortalFirst
  <2>6. ReportedInput'
    <3>1. aim' # None => g_input_enabled' /\ g_pops_context' /\ aim' = input'[0]
      BY <1>1, <1>3, <2>1, <2>2, <2>3 DEF ReportedInput, Slots
    <3> QED
      BY <1>1, <1>2, <1>3, <2>3, <3>1 DEF ReportedInput, p2_runtime_enabled
  <2> QED
    BY <1>2, <1>5, <2>4, <2>5, <2>6 DEF IInv, ControllersInv
<1> QED
  BY <1>7, <1>8

\* The main loop, whose pairing is of the slot it has read before.
LEMMA TaskKeeps ==
  ASSUME IInv, rjm_joypad_backend_task
  PROVE  IInv'
<1>1. /\ SettingsInv /\ ControllersOK /\ ReportedInput /\ SlotsKept /\ PortalFirst
      /\ InputOfSlot /\ g_slots \in [Slots -> SlotRecords] /\ g_input_enabled \in BOOLEAN
      /\ g_p2_enabled \in BOOLEAN
      /\ device \in [Addresses -> {"away", "active", "leaving"}]
      /\ g_pairing_slot \in Slots \cup {NoPlayer}
  BY DEF IInv, ControllersInv, ControllersOK, SettingsInv, SettingsOK
<1>2. /\ UNCHANGED <<g_started, g_pops_context, inputVars, g_input_enabled, reported, aim>>
  BY DEF rjm_joypad_backend_task, portalVars, pspVars
<1>3. CASE \E d \in Addresses : TaskFinds(d)
  <2>1. PICK d \in Addresses : TaskFinds(d)
    BY <1>3
  <2>2. /\ UNCHANGED <<device, g_slots, g_pairing_slot>> /\ g_pairing_slot # NoPlayer
        /\ task' = [pc |-> "pair", conn |-> d, slot |-> g_pairing_slot]
    BY <2>1 DEF TaskFinds, pairVars
  <2>3. SettingsInv' /\ flash' = flash
    BY <1>1, <2>1, SettingsSame DEF TaskFinds
  <2>4. SlotsKept'
    BY <1>1, <2>2, <2>3 DEF SlotsKept, AddressesIn
  <2>5. ~g_input_enabled
    BY <1>1, <2>2 DEF PortalFirst
  <2>6. task'.pc = "pair" /\ task'.conn \in Addresses /\ task'.slot \in Slots
    BY <1>1, <2>2
  <2> QED
    BY <1>1, <1>2, <2>2, <2>3, <2>4, <2>5, <2>6, DisabledKeeps
<1>4. CASE \E d \in Addresses : TaskConnects(d)
  <2>1. PICK d \in Addresses : TaskConnects(d)
    BY <1>4
  <2>2. /\ UNCHANGED <<device, g_pairing_slot>> /\ task'.pc = "act"
        /\ g_slots' = set_connected(g_slots, d, TRUE)
    BY <2>1 DEF TaskConnects
  <2>3. SettingsInv' /\ flash' = flash /\ g_p2_enabled' = g_p2_enabled
    BY <1>1, <2>1, SettingsSame DEF TaskConnects
  <2>4. /\ g_slots' \in [Slots -> SlotRecords] /\ AddressesIn(g_slots)' = AddressesIn(g_slots)
        /\ \A s \in Slots : g_slots'[s].address = g_slots[s].address
    BY <1>1, <2>2, ConnectedSlots DEF AddressesIn
  <2>5. SlotsKept'
    BY <1>1, <2>3, <2>4 DEF SlotsKept, Slots
  <2>6. ControllersOK' /\ PortalFirst' /\ InputOfSlot' /\ ReportedInput'
    BY <1>1, <1>2, <2>2, <2>3, <2>4 DEF ControllersOK, PortalFirst, InputOfSlot,
       ReportedInput, p2_runtime_enabled, inputVars
  <2> QED
    BY <2>3, <2>5, <2>6 DEF IInv, ControllersInv
<1>5. CASE TaskPairs
  <2> DEFINE slot == task.slot
             d == task.conn
  <2>1. task.pc = "pair" /\ slot \in Slots /\ d \in Addresses
    BY <1>1, <1>5 DEF TaskPairs, ControllersOK, Idle
  <2>2. ~g_input_enabled
    BY <1>1, <2>1 DEF PortalFirst
  <2>3. PICK slots : slots = complete_pairing(g_slots, slot, d)
    OBVIOUS
  <2>4. /\ slots \in [Slots -> SlotRecords]
        /\ slots[0].address # None => slots[0].address # slots[1].address
    BY <1>1, <2>1, <2>3, PairedSlots
  <2>5. /\ device' = device \/ device' = Forgotten(device, g_slots[slot].address)
        /\ g_slots' = slots /\ g_pairing_slot' = NoPlayer /\ task'.pc = "act"
        /\ g_p2_enabled' = (g_p2_enabled \/ slot = 1)
        /\ flash' = SaveSlots(SaveP2(flash, slot), slots)
        /\ UNCHANGED <<g_mapping, g_guncon_mask, historyVars>>
    BY <1>5, <2>3 DEF TaskPairs
  <2>6. g_slots[slot].address \in Maybe
    BY <1>1, <2>1 DEF SlotRecords
  <2>7. device' \in [Addresses -> {"away", "active", "leaving"}]
    BY <1>1, <2>5, <2>6, ForgottenDevices
  <2>8. SettingsInv' /\ flash'.slots = AddressesIn(slots)
    BY <1>1, <2>1, <2>4, <2>5, PairingKeeps
  <2>9. SlotsKept'
    BY <2>4, <2>5, <2>8 DEF SlotsKept, AddressesIn
  <2> QED
    BY <1>1, <1>2, <2>2, <2>4, <2>5, <2>7, <2>8, <2>9, DisabledKeeps
<1>6. CASE TaskActs
  <2>1. UNCHANGED <<device, g_slots, g_pairing_slot>> /\ task' = Idle
    BY <1>6 DEF TaskActs, pairVars
  <2>2. SettingsInv' /\ flash' = flash /\ g_p2_enabled' = g_p2_enabled
    BY <1>1, <1>6, SettingsSame DEF TaskActs
  <2>3. SlotsKept'
    BY <1>1, <2>1, <2>2 DEF SlotsKept, AddressesIn
  <2>4. ControllersOK' /\ PortalFirst' /\ InputOfSlot' /\ ReportedInput'
    BY <1>1, <1>2, <2>1, <2>2 DEF ControllersOK, PortalFirst, InputOfSlot, ReportedInput,
       p2_runtime_enabled, inputVars, Idle
  <2> QED
    BY <2>2, <2>3, <2>4 DEF IInv, ControllersInv
<1> QED
  BY <1>3, <1>4, <1>5, <1>6 DEF rjm_joypad_backend_task

LEMMA StutterKeeps == ASSUME IInv, UNCHANGED vars PROVE IInv'
<1>1. SettingsInv' /\ flash' = flash /\ g_p2_enabled' = g_p2_enabled
  BY SettingsSame DEF IInv, vars
<1>2. UNCHANGED <<device, pairVars, portalVars, g_pops_context, inputVars, pspVars, task>>
  BY DEF vars
<1> QED
  BY <1>1, <1>2 DEF IInv, ControllersInv, ControllersOK, SlotsKept, PortalFirst,
     InputOfSlot, ReportedInput, AddressesIn, p2_runtime_enabled, pairVars, portalVars,
     inputVars, pspVars

-----------------------------------------------------------------------------
(***************************************************************************)
(* The theorems                                                            *)
(***************************************************************************)

\* What is kept by every interleaving of the main loop, the Bluetooth
\* callbacks, the portal's requests, the link's context and a loss of power.
THEOREM BackendInvariant == Spec => []IInv
<1>1. Init => IInv
  BY Begins
<1>2. IInv /\ [Next]_vars => IInv'
  <2> SUFFICES ASSUME IInv, [Next]_vars PROVE IInv'
    OBVIOUS
  <2>1. CASE rjm_joypad_backend_task
    BY <2>1, TaskKeeps
  <2>2. CASE Restart
    BY <2>2, RestartKeeps
  <2>3. CASE Callback
    <3>1. CASE \E d \in Addresses : rjm_joypad_input_event(d)
      BY <3>1, QuietKeeps, EventPairsKeeps, EventOfPlayerKeeps DEF rjm_joypad_input_event
    <3>2. CASE \E d \in Addresses : rjm_joypad_device_disconnected(d)
      BY <3>2, DisconnectedKeeps
    <3>3. CASE http_recv
      BY <3>3, QuietKeeps, RequestsKeep DEF http_recv
    <3>4. CASE \/ startup_timer_handler \/ rjm_portal_start
               \/ \E d \in Addresses : Connect(d)
               \/ \E is_pops \in BOOLEAN : rjm_controller_set_pops_context(is_pops)
      BY <3>4, QuietKeeps
    <3> QED
      BY <2>3, <3>1, <3>2, <3>3, <3>4 DEF Callback
  <2>4. CASE UNCHANGED vars
    BY <2>4, StutterKeeps
  <2> QED
    BY <2>1, <2>2, <2>3, <2>4 DEF Next
<1> QED
  BY <1>1, <1>2, PTL DEF Spec

\* "A controller address belongs to exactly one player slot", and the slots in
\* flash are those in use (rjm_config_store_save_slots).
THEOREM SlotsAreKept == Spec => []SlotsKept
<1>1. IInv => SlotsKept
  BY DEF IInv, ControllersInv
<1> QED
  BY <1>1, BackendInvariant, PTL

\* Only a paired and linked controller is reported to the PSP, player 2 and
\* gyro aim only in POPS, and nothing while the portal is open (remap_players).
THEOREM PairedAreReported == Spec => []OnlyPairedReported
<1>1. IInv => OnlyPairedReported
  <2> SUFFICES ASSUME IInv PROVE OnlyPairedReported
    OBVIOUS
  <2>1. ControllersOK /\ PortalFirst /\ InputOfSlot /\ ReportedInput
    BY DEF IInv, ControllersInv
  <2>2. \A p \in Slots : reported[p] # None =>
          /\ g_slots[p].address = reported[p]
          /\ device[reported[p]] # "away"
          /\ p = 1 => p2_runtime_enabled
    BY <2>1 DEF InputOfSlot, ReportedInput
  <2>3. aim # None => g_pops_context /\ g_slots[0].address = aim /\ device[aim] # "away"
    BY <2>1 DEF InputOfSlot, ReportedInput, Slots
  <2>4. g_started => reported = EmptySlots /\ aim = None
    BY <2>1 DEF PortalFirst, ReportedInput, ControllersOK, EmptySlots
  <2> QED
    BY <2>2, <2>3, <2>4 DEF OnlyPairedReported
<1> QED
  BY <1>1, BackendInvariant, PTL

\* The GunCon bits in use, and those in flash, are what the user chose for each
\* profile, unless profiles and bits were stored apart (config_portal.c).
THEOREM GunConIsKept == Spec => []GunConFollows
<1>1. IInv => GunConFollows
  <2> SUFFICES ASSUME IInv PROVE GunConFollows
    OBVIOUS
  <2>1. SettingsOK /\ Together
    BY DEF IInv, SettingsInv
  <2>2. /\ Loaded.mask = LoadedMask
        /\ flash.mapping = Absent =>
             Loaded.mapping = rjm_config_set_defaults /\ LoadedMask = {}
        /\ flash.mapping # Absent => LoadedMask = flash.mask
    BY <2>1, LoadedRecords
  <2> QED
    BY <2>1, <2>2, DefaultsAreMapping DEF Together, GunConFollows
<1> QED
  BY <1>1, BackendInvariant, PTL

\* A restart brings back what was saved and has not been edited since
\* (rjm_joypad_backend_init).
THEOREM SavedComesBack == Spec => []RestartBringsBack
<1>1. IInv => RestartBringsBack
  BY DEF IInv, SettingsInv
<1> QED
  BY <1>1, BackendInvariant, PTL
=============================================================================
