----------------------------- MODULE MCVendors -----------------------------
(* A behaviour is about the callers of one client, or about one stream of a *)
(* recognizer; the other of the two stays as it starts.                    *)
EXTENDS VendorReply, AsrVendors

CONSTANTS c1, c2
TwoCallers == {c1, c2}
FollowOne == {c1}

VARIABLE subject

asrVars == <<vars, vendorVars>>
mcVars == <<subject, allVars, asrVars>>

MCInit ==
  /\ subject \in {"client", "stream"}
  /\ ReplyInit /\ VendorsInit
  /\ subject = "client" => vendor = "deepgram"
  /\ subject = "stream" => client = "gpt4o"

MCNext ==
  \/ subject = "client" /\ ReplyNext /\ UNCHANGED <<subject, asrVars>>
  \/ subject = "stream" /\ VendorsNext /\ UNCHANGED <<subject, allVars>>

MCFairSpec ==
  /\ MCInit /\ [][MCNext]_mcVars
  /\ ReplyFairness /\ VendorsFairness
  /\ \A c \in Callers : WF_allVars(subject = "client" /\ Begins(c))
=============================================================================
