--------------------------- MODULE MetadataService ---------------------------
(***************************************************************************)
(* The metadata service.  Its tables are changed from two sides: the       *)
(* schedules by the scheduler and the wizard, the storage locations and    *)
(* the notification settings by the commands.  The two sides share no row, *)
(* so that their requests commute: a behaviour here has those of one side. *)
(***************************************************************************)
EXTENDS ScheduleRegistry

CONSTANTS Location, Channel, Client, Nobody, Unknown, MaxRetries

ASSUME MetadataAssumption == MaxRetries \in Nat /\ Nobody \notin Client \cup Location

VARIABLES side, located, asks, phase, tries, handlers, alone, settled, stored, copied, lasting

Settings == INSTANCE NotificationChannels WITH row <- located

scheduleVars == <<row, origin, made, create, stop, tasks, mapped, loading, listed, restarts>>
locationVars == <<located, asks, phase, tries, handlers, alone, settled>>
channelVars  == <<stored, copied, lasting>>

MetadataInit ==
  /\ side \in {"schedules", "settings"}
  /\ Init /\ Settings!StorageInit /\ Settings!ChannelInit

SettingsNext ==
  \/ Settings!StorageNext /\ UNCHANGED channelVars
  \/ Settings!ChannelStep

MetadataNext ==
  \/ side = "schedules" /\ Next /\ UNCHANGED <<side, locationVars, channelVars>>
  \/ side = "settings" /\ SettingsNext /\ UNCHANGED <<side, scheduleVars>>

MetadataSpec == MetadataInit /\ [][MetadataNext]_<<vars, side, locationVars, channelVars>>

(* The default storage location that a command reports is the only one. *)
DefaultStands == Settings!DefaultStands

(* The notification settings that a command reports stand, and schedules get them. *)
ChannelStands == Settings!ChannelStands
=============================================================================
