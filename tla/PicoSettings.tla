---------------------------- MODULE PicoSettings ----------------------------
(***************************************************************************)
(* The settings of the Pico 2 W: what pico2w/config_portal.c keeps in use  *)
(* and what pico2w/config_store.c keeps in flash, one record per setting.  *)
(* A profile is known by whether the user chose GunCon mode for it; the    *)
(* firmware keeps that choice apart, as a bit per profile index, in a      *)
(* record of its own, so that profiles saved by older firmware stay valid. *)
(*                                                                         *)
(* This module has the operations; JoypadBackend composes them with the    *)
(* controllers.  The Wi-Fi password, the gyro span, DS3 mode, colours and   *)
(* dead zones are stored alone and meet nothing: they are left out.        *)
(***************************************************************************)
EXTENDS Integers, Sequences, FiniteSets, SequencesExt

CONSTANTS
  Addresses,       \* the controllers' Bluetooth addresses
  RJM_PROFILE_MAX  \* 8

ASSUME PicoSettingsAssumption ==
  /\ IsFiniteSet(Addresses)
  /\ RJM_PROFILE_MAX \in Nat \ {0}

VARIABLES
  g_mapping,      \* profile: for each profile, whether the user wants GunCon
                  \* mode; active_profile: an index from 1
  g_guncon_mask,  \* the profile indices whose bit is set
  g_p2_enabled,
  flash,          \* the records; a missing one counts as its default, but
                  \* for the mapping's, which is Absent then
  saved,          \* every setting in use is in flash (history)
  half,           \* the profiles in flash and their bits were not stored
                  \* together (history)
  mixed           \* the profiles in use came from such a flash (history)

settingsVars == <<g_mapping, g_guncon_mask, g_p2_enabled>>
historyVars == <<saved, half, mixed>>

None == "none"
Absent == [absent |-> TRUE]
Slots == {0, 1}
EmptySlots == [s \in Slots |-> None]

-----------------------------------------------------------------------------
rjm_config_set_defaults == [profile |-> <<FALSE>>, active_profile |-> 1]

\* The bits that say what the user chose.
BitsOf(c) == {i \in DOMAIN c.profile : c.profile[i]}

rjm_portal_guncon_enabled == g_mapping.active_profile \in g_guncon_mask

\* POST /api/profile/add: the new profile is a copy of the active one.
add_profile(c) ==
  [profile |-> Append(c.profile, c.profile[c.active_profile]),
   active_profile |-> Len(c.profile) + 1]

MaskWithAdded(mask, c) ==
  LET index == Len(c.profile) + 1
  IN  IF c.active_profile \in mask THEN mask \cup {index} ELSE mask \ {index}

\* POST /api/profile/delete: the profiles behind it move up.
delete_profile(c, index) ==
  [profile |-> RemoveAt(c.profile, index),
   active_profile |-> IF c.active_profile >= Len(c.profile)
                      THEN Len(c.profile) - 1 ELSE c.active_profile]

\* Mutant: the bits behind it stay where they are.
MaskWithout_NotMoved(mask, index) == mask \ {index}
MaskWithout(mask, index) ==
  {i \in mask : i < index} \cup {i - 1 : i \in {j \in mask : j > index}}

-----------------------------------------------------------------------------
(***************************************************************************)
(* The records.  Each is written as a whole, or not at all.                *)
(***************************************************************************)

\* Without a mapping the bits are dropped with it.
LoadedMask == IF flash.mapping = Absent THEN {} ELSE flash.mask

\* What a start of the firmware makes of the records.
Loaded ==
  [mapping |-> IF flash.mapping = Absent THEN rjm_config_set_defaults
               ELSE flash.mapping,
   mask |-> LoadedMask,
   p2 |-> flash.p2]

InUse == [mapping |-> g_mapping, mask |-> g_guncon_mask, p2 |-> g_p2_enabled]

\* addresses: the controllers paired before.
InitSettings(addresses) ==
  /\ g_mapping = rjm_config_set_defaults
  /\ g_guncon_mask = {}
  /\ g_p2_enabled = TRUE
  /\ flash = [mapping |-> Absent, mask |-> {}, p2 |-> TRUE, slots |-> addresses]
  /\ saved = TRUE
  /\ half = FALSE
  /\ mixed = FALSE

\* The records of the settings in use, those named in what replaced.
Stored(what) ==
  [flash EXCEPT !.mapping = IF "mapping" \in what THEN g_mapping ELSE @,
                !.mask = IF "mask" \in what THEN g_guncon_mask ELSE @,
                !.p2 = IF "p2" \in what THEN g_p2_enabled ELSE @]

\* Whether profiles and bits still belong together once these records are
\* written.
HalfAfter(what) ==
  IF {"mapping", "mask"} \subseteq what THEN mixed
  ELSE half \/ ((mixed \/ ~saved) /\ {"mapping", "mask"} \cap what # {})

\* POST /api/config/save: the records are written in this order until one
\* fails, or power does.
\* Mutant: the bits are not saved.
SaveOrder_WithoutBits == <<"mapping", "p2", "ds3">>
SaveOrder == <<"mapping", "p2", "ds3", "mask">>

config_save(n) ==
  LET what == {SaveOrder[i] : i \in 1..n}
  IN  /\ flash' = Stored(what)
      /\ half' = HalfAfter(what)
      /\ saved' = ((saved /\ ~half) \/ n = Len(SaveOrder))
      /\ UNCHANGED <<settingsVars, mixed>>

\* POST /api/done: every record is tried.
DoneSaves(what) ==
  /\ flash' = Stored(what)
  /\ half' = HalfAfter(what)
  /\ saved' = ((saved /\ ~half) \/ what = ToSet(SaveOrder))
  /\ UNCHANGED <<settingsVars, mixed>>

\* The chord's rjm_portal_next_profile saves the mapping alone: bits that were
\* left in flash without a mapping, and dropped, come back with it.
rjm_portal_next_profile(ok) ==
  LET next == [g_mapping EXCEPT !.active_profile =
                 (@ % Len(g_mapping.profile)) + 1]
  IN  /\ g_mapping' = next
      /\ flash' = IF ok THEN [flash EXCEPT !.mapping = next] ELSE flash
      /\ half' = IF ok THEN HalfAfter({"mapping"}) ELSE half
      /\ saved' = (saved /\ ok /\ ~half)
      /\ UNCHANGED <<g_guncon_mask, g_p2_enabled, mixed>>

-----------------------------------------------------------------------------
(***************************************************************************)
(* The portal's requests                                                   *)
(***************************************************************************)

Edited ==
  /\ saved' = FALSE
  /\ UNCHANGED <<g_p2_enabled, flash, half>>

reset_mapping ==
  /\ g_mapping' = rjm_config_set_defaults
  /\ g_guncon_mask' = {}
  /\ mixed' = FALSE
  /\ Edited

AddProfile ==
  /\ Len(g_mapping.profile) < RJM_PROFILE_MAX
  /\ g_mapping' = add_profile(g_mapping)
  /\ g_guncon_mask' = MaskWithAdded(g_guncon_mask, g_mapping)
  /\ UNCHANGED mixed
  /\ Edited

DeleteProfile ==
  /\ Len(g_mapping.profile) > 1
  /\ \E index \in DOMAIN g_mapping.profile :
       /\ g_mapping' = delete_profile(g_mapping, index)
       /\ g_guncon_mask' = MaskWithout(g_guncon_mask, index)
  /\ UNCHANGED mixed
  /\ Edited

SelectProfile ==
  /\ \E index \in DOMAIN g_mapping.profile :
       g_mapping' = [g_mapping EXCEPT !.active_profile = index]
  /\ UNCHANGED <<g_guncon_mask, mixed>>
  /\ Edited

SetGunCon ==
  /\ \E index \in DOMAIN g_mapping.profile, on \in BOOLEAN :
       /\ g_mapping' = [g_mapping EXCEPT !.profile[index] = on]
       /\ g_guncon_mask' = IF on THEN g_guncon_mask \cup {index}
                           ELSE g_guncon_mask \ {index}
  /\ UNCHANGED mixed
  /\ Edited

http_recv_profile ==
  reset_mapping \/ AddProfile \/ DeleteProfile \/ SelectProfile \/ SetGunCon

\* A start of the firmware: RAM is lost, the records are loaded.
RestoreSettings ==
  /\ g_mapping' = Loaded.mapping
  /\ g_guncon_mask' = Loaded.mask
  /\ g_p2_enabled' = Loaded.p2
  /\ saved' = TRUE
  /\ mixed' = (half /\ flash.mapping # Absent)

-----------------------------------------------------------------------------
(***************************************************************************)
(* Properties                                                              *)
(***************************************************************************)

\* The GunCon mode in use is the one the user chose for each profile, through
\* additions, deletions, chords, saves and restarts, but for a start from a
\* flash whose profiles and bits were stored apart (config_portal.c keeps them
\* apart; joypad_backend.c, "The GunCon bits belong to the stored profiles").
GunConFollows ==
  /\ ~mixed => g_guncon_mask = BitsOf(g_mapping)
  /\ ~half => Loaded.mask = BitsOf(Loaded.mapping)

\* Once the settings were saved and until they are edited, or written in part
\* over profiles and bits that were stored apart, a restart would bring them
\* back: README.md of pico2w, "Pairing slots, Bluetooth bond keys,
\* mappings, and the active profile survive reboot".
RestartBringsBack == saved => Loaded = InUse

=============================================================================
