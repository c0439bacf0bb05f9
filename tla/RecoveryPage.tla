----------------------------- MODULE RecoveryPage -----------------------------
(***************************************************************************)
(* The recovery prompt of the browser UI over the registry: what init and  *)
(* checkRecovery of internal/api/ui/app.js do when the page is loaded, the *)
(* GET /recovery they send (handleRecoveryGet), and the buttons of the     *)
(* dialog.  There is one page and no other client, so that every call      *)
(* comes from it; while the dialog is open it lets no other gesture        *)
(* through.  The page outlives the process, and may be reloaded any time.  *)
(***************************************************************************)
EXTENDS Registry

VARIABLES
  page,     \* what the page does
  preview   \* the routes the dialog lists

pageVars == <<vars, page, preview>>

PageTypeOK ==
  /\ page \in {"closed", "ask", "read", "prompt", "restore", "dismiss",
               "ready", "change", "dead"}
  /\ preview \in Seq(Kept)

Turn(from, to) == page \in from /\ page' = to

-----------------------------------------------------------------------------
\* The page is loaded, or loaded again.  Loaded again in the middle of a call
\* it would be a second client.
Open ==
  /\ Up /\ \A h \in Handler : call[h].pc = "idle"
  /\ page' = "ask"
  /\ UNCHANGED <<vars, preview>>

\* handleRecoveryGet looks whether there is a file ...
ServeExists ==
  /\ Up
  /\ Turn({"ask"}, IF file.kind = "absent" THEN "ready" ELSE "read")
  /\ UNCHANGED <<vars, preview>>

\* ... reads it, and converts its routes.  The dialog opens unless that fails;
\* an empty file, or none by now, has no routes.
\* (Faulty variant: it lists the routes of the table.)
ServeTable ==
  /\ Up
  /\ Turn({"read"}, "prompt")
  /\ preview' = order
  /\ UNCHANGED vars

ServePreview ==
  /\ Up
  /\ \/ /\ file.kind # "garbled" /\ AllReadable(file.cps)
        /\ Turn({"read"}, "prompt")
        /\ preview' = Restored(file.cps)
     \/ /\ file.kind = "garbled" \/ ~AllReadable(file.cps)
        /\ Turn({"read"}, "ready")
        /\ UNCHANGED preview
  /\ UNCHANGED vars

\* Nobody answers GET /recovery: init ends before it starts the timer.
LoadFails ==
  /\ ~Up
  /\ Turn({"ask", "read"}, "dead")
  /\ UNCHANGED <<vars, preview>>

\* The buttons.
PressRestore(h) ==
  RestoreCall(h) /\ Turn({"prompt"}, "restore") /\ UNCHANGED preview

PressDismiss(h) ==
  DismissCall(h) /\ Turn({"prompt"}, "dismiss") /\ UNCHANGED preview

ChangeRoutes(h) ==
  (AddCall(h) \/ DeleteCall(h)) /\ Turn({"ready"}, "change") /\ UNCHANGED preview

\* Escape closes the dialog without an answer.
Escape ==
  /\ Turn({"prompt", "restore", "dismiss"}, "ready")
  /\ UNCHANGED <<vars, preview>>

\* The reply comes in, at a page that may no longer wait for it.  The dialog
\* stays open when a restore has failed, and closes whatever came of a dismiss.
Answer(h) ==
  /\ Reply(h)
  /\ page' = IF page = "restore" /\ ~call[h].ok THEN "prompt"
             ELSE IF page \in {"restore", "dismiss", "change"} THEN "ready"
             ELSE page
  /\ UNCHANGED preview

\* The process died before it replied: the dialog stays open.
NoAnswer ==
  /\ \A h \in Handler : call[h].pc = "idle"
  /\ \/ Turn({"restore", "dismiss"}, "prompt")
     \/ Turn({"change"}, "ready")
  /\ UNCHANGED <<vars, preview>>

\* What the server does by itself.
Background ==
  /\ \/ \E h \in Handler : (Acquire(h) \/ Work(h)) /\ call[h].pc # "reply"
     \/ Signal \/ Snapshot \/ Shutdown \/ Crash \/ Boot
  /\ UNCHANGED <<page, preview>>

PageInit == Init /\ page = "closed" /\ preview = <<>>

PageNext ==
  \/ Open \/ ServeExists \/ ServePreview \/ LoadFails \/ Escape \/ NoAnswer
  \/ \E h \in Handler :
       PressRestore(h) \/ PressDismiss(h) \/ ChangeRoutes(h) \/ Answer(h)
  \/ Background

PageSpec == PageInit /\ [][PageNext]_pageVars

-----------------------------------------------------------------------------
\* The routes of the table that a call has added.
Activated(h) ==
  {[path |-> rt.path, target |-> rt.target] :
     rt \in {rt \in byID : rt.id \in Range(call[h].acts)}}

\* What the dialog lists is what Add would keep of it: else a path that ends in
\* a slash, or in a slash after a space, may still change or be refused.
Settled(cps) == \A i \in DOMAIN cps : Readable(cps[i]) /\ Converted(cps[i]) = cps[i]

\* A restore that succeeds activates routes of the list the user agreed to and
\* no other, though the file is read again when the button is pressed and the
\* process may have died and started since the dialog opened, in the middle of
\* a restore or of its rollback.  What such a process took out of the file may
\* be missing.
RestoreAsPreviewed ==
  \A h \in Handler :
    page = "restore" /\ Settled(preview)
    /\ call[h].op = "restore" /\ call[h].pc = "reply" /\ call[h].ok
      => Activated(h) \subseteq Range(preview)

(***************************************************************************)
(* What the documents say and the code does not do.                        *)
(***************************************************************************)

\* docs/plan-routes.md: the prompt is shown only on startup when the file
\* exists, before any funnel is started.  The file exists whenever there are
\* routes, so every load of the page shows it.
PromptOnlyOnStartup ==
  [][page = "read" /\ page' = "prompt" => order = <<>>]_pageVars

=============================================================================
