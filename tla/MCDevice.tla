------------------------------ MODULE MCDevice ------------------------------
(***************************************************************************)
(* Constant values for the run of Account, Conversation and Connection,    *)
(* the modules of one page on one device.  They share no state: a          *)
(* behaviour is one of one of them.                                        *)
(***************************************************************************)
EXTENDS Account, Conversation, Connection, TLC

VARIABLE part

CONSTANTS home, relay

deviceVars == <<part, accountVars, conversationVars, connectionVars>>

DeviceInit ==
  /\ AccountInit /\ ConversationInit /\ ConnectionInit
  /\ part \in {"account", "conversation", "connection"}
  /\ part # "connection" => up = Url
DeviceNext ==
  /\ UNCHANGED part
  /\ \/ part = "account" /\ AccountNext /\ UNCHANGED <<conversationVars, connectionVars>>
     \/ part = "conversation" /\ ConversationNext /\ UNCHANGED <<accountVars, connectionVars>>
     \/ part = "connection" /\ ConnectionNext /\ UNCHANGED <<accountVars, conversationVars>>
DeviceSpec == DeviceInit /\ [][DeviceNext]_deviceVars

\* Type correctness of the three.
TypesOK == AccountTypeOK /\ ConversationTypeOK /\ ConnectionTypeOK

\* Contacts are compared with each other only.
Twins == Permutations(Thread)

OwnServer == <<home>>
RelayServer == <<relay>>
=============================================================================
