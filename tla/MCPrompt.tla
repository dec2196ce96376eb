------------------------------ MODULE MCPrompt ------------------------------
(* Two of the seeded agents, and what a user may make of one.              *)
EXTENDS Prompt

MCRoom == <<"generalist", "calendar">>
MCBaseline == [a \in Agents |->
  IF a = "generalist" THEN {"email.read", "calendar.read", "reminders.read", "filesystem.read"}
  ELSE {"calendar.read", "calendar.write", "reminders.read", "reminders.write"}]
MCCapSets == {{}, Capabilities}
=============================================================================
