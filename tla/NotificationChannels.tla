------------------------ MODULE NotificationChannels ------------------------
(***************************************************************************)
(* The notification settings of the metadata service, one row per channel: *)
(* the notification commands and the wizard write them, and `schedule      *)
(* --notify` copies them into the schedule that it asks for, whose backups *)
(* are announced with that copy from then on.  The requests go through     *)
(* MetadataClient, as those of StorageLocations do.                        *)
(***************************************************************************)
EXTENDS StorageLocations

CONSTANTS
  Channel,   \* "email", "slack"
  Unknown

VARIABLES
  stored,  \* the client whose settings a channel has, or Nobody
  copied,  \* the settings in the schedule that a client has asked for
  lasting  \* what the last of the commands to run has reported of a channel

channelVars == <<stored, copied, lasting>>

ChannelInit ==
  /\ \E before \in [Channel -> BOOLEAN] :
       stored = [n \in Channel |-> IF before[n] THEN n ELSE Nobody]
  /\ copied = [c \in Client |-> Nobody]
  /\ lasting = [n \in Channel |-> Unknown]

ChannelKinds == {"configure", "remove channel", "schedule"}

Forgotten == [n \in Channel |-> Unknown]

-----------------------------------------------------------------------------
(* The clients                                                             *)

BeginChange(c, kind, statement) ==
  /\ \E n \in Channel : Start(c, [kind |-> kind, at |-> n], statement)
  /\ lasting' = Forgotten
  /\ UNCHANGED <<row, tries, handlers, settled, stored, copied, faults>>

(* The command tries the mail server or the webhook before it saves; the wizard does not *)
BeginConfigure(c) ==
  BeginChange(c, "configure", "send") \/ BeginChange(c, "configure", "over")

ConfigureInWizard(c) == BeginChange(c, "configure", "send")

BeginRemoveChannel(c) == BeginChange(c, "remove channel", "settings")

BeginSchedule(c) ==
  /\ \E n \in Channel : Start(c, [kind |-> "schedule", at |-> n], "settings")
  /\ UNCHANGED <<row, tries, handlers, settled, channelVars, faults>>

(* Both commands end when there are no settings, or when the call fails; remove asks the
   user first *)
ReadForRemove(c) ==
  /\ phase[c] = "settings" /\ asks[c].kind = "remove channel"
  /\ \/ /\ stored[Target(c)] # Nobody
        /\ phase' = [phase EXCEPT ![c] = "send"]
     \/ phase' = [phase EXCEPT ![c] = "over"]
  /\ UNCHANGED <<row, asks, tries, handlers, alone, settled, channelVars, faults>>

ReadForSchedule(c) ==
  /\ phase[c] = "settings" /\ asks[c].kind = "schedule"
  /\ phase' = [phase EXCEPT ![c] = "over"]
  /\ \/ copied' = [copied EXCEPT ![c] = stored[Target(c)]] /\ UNCHANGED faults
     \/ Fault /\ UNCHANGED copied
  /\ UNCHANGED <<row, asks, tries, handlers, alone, settled, stored, lasting>>

-----------------------------------------------------------------------------
(* The handlers                                                            *)

(* What the command reports, if this reply is the one that it waits for *)
Report(h, outcome) ==
  /\ Reply(h, TRUE)
  /\ lasting' = IF phase[h.of] = "wait" /\ tries[h.of] = h.try /\ alone = h.of
                THEN [lasting EXCEPT ![Target(h.of)] = outcome] ELSE lasting

(* Mutant of UpsertSettings: the fields of a row that is there are left as they are. *)
UpsertNewOnly(h) ==
  /\ h.at = "configure"
  /\ LET n == Target(h.of) IN
     stored' = IF stored[n] = Nobody THEN [stored EXCEPT ![n] = h.of] ELSE stored
  /\ Report(h, h.of)
  /\ UNCHANGED <<row, asks, tries, alone, copied, faults>>

UpsertSettings(h) ==
  /\ h.at = "configure"
  /\ stored' = [stored EXCEPT ![Target(h.of)] = h.of]
  /\ Report(h, h.of)
  /\ UNCHANGED <<row, asks, tries, alone, copied, faults>>

(* 404 without a row, also for the repetition of a request that was carried out *)
DeleteSettings(h) ==
  /\ h.at = "remove channel"
  /\ IF stored[Target(h.of)] = Nobody
     THEN Reply(h, FALSE) /\ UNCHANGED <<stored, lasting>>
     ELSE /\ stored' = [stored EXCEPT ![Target(h.of)] = Nobody]
          /\ Report(h, Nobody)
  /\ UNCHANGED <<row, asks, tries, alone, copied, faults>>

ChannelStep ==
  \/ \E c \in Client : \/ BeginConfigure(c) \/ ConfigureInWizard(c) \/ BeginRemoveChannel(c)
                       \/ BeginSchedule(c) \/ ReadForRemove(c) \/ ReadForSchedule(c)
  \/ \E h \in handlers : UpsertSettings(h) \/ DeleteSettings(h)

-----------------------------------------------------------------------------
ChannelTypeOK ==
  /\ asks \in [Client -> {NoTask} \cup [kind : Kinds, at : Location]
                        \cup [kind : ChannelKinds, at : Channel]]
  /\ phase \in [Client -> {"new", "lookup", "settings", "send", "wait", "over"}]
  /\ stored \in [Channel -> Client \cup Channel \cup {Nobody}]
  /\ copied \in [Client -> Client \cup Channel \cup {Nobody}]
  /\ lasting \in [Channel -> Client \cup {Nobody, Unknown}]

(* The settings that the last command reported, if it ran alone, are those of the channel
   until another command begins to change some, although its requests may have been
   repeated and carried out again; and a schedule that is asked for meanwhile gets them. *)
ChannelStands ==
  ChannelTypeOK /\ \A n \in Channel : lasting[n] # Unknown =>
    /\ stored[n] = lasting[n]
    /\ \A c \in Client : asks[c] = [kind |-> "schedule", at |-> n] /\ alone = c
                           => copied[c] \in {Nobody, lasting[n]}
=============================================================================
