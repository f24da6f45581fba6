--------------------------- MODULE Organization ----------------------------
(***************************************************************************)
(* What an organization says about itself: its name, its logos and the one   *)
(* it shows, its operational settings, and the audit trail of the changes.    *)
(*                                                                         *)
(* Each route is a few statements with no transaction around them: it looks,   *)
(* writes, and writes the audit row last.  Requests of several administrators   *)
(* interleave between statements and may stop after any of them.               *)
(*                                                                         *)
(* Abstractions.  A file is its checksum; what sniffImageType or the size limit  *)
(* refuses stores nothing and is left out, and so are the colours and texts of   *)
(* the branding row.  A request happens once, which bounds the run.             *)
(***************************************************************************)
EXTENDS Naturals

CONSTANTS
  Change,        \* requests that change something, each made at most once
  File,          \* contents of image files
  MaxLogos,      \* bound: logo rows ever stored
  Name,          \* names of the organization
  Admin,         \* administrators' pages with the settings form
  MaxSaves,      \* bound: saves of it
  Field, Value,  \* settings and what they may be set to
  OnForm,        \* the settings the form shows
  Cleared,       \* an explicit null
  NullableField, \* the settings that may be cleared
  Default,       \* [Field -> Value \cup {Cleared}]: the column defaults
  NoLogo, NoSettings, NoForm, Nothing

ASSUME OrganizationAssumption ==
  /\ MaxLogos \in Nat /\ NoLogo \notin 1 .. MaxLogos /\ MaxSaves \in Nat
  /\ NullableField \subseteq Field /\ OnForm \subseteq Field
  /\ Default \in [Field -> Value \cup {Cleared}]
  /\ NoSettings \notin [Field -> Value \cup {Cleared}]

VARIABLES
  name,      \* organizations.name
  logos,     \* organization_logos: [stored ids -> File]
  chosen,    \* organization_branding.logoAssetId
  settings,  \* organization_settings, or NoSettings
  audit,     \* audit_logs rows
  creq,      \* requests being served
  nextId,
  effects,   \* history: what each request has written
  forms,     \* the settings form of each page
  saves

rows == <<name, logos, chosen, audit, nextId>>
settingsVars == <<settings, forms, saves>>
requestVars == <<rows, creq, effects>>
organizationVars == <<requestVars, settingsVars>>

LogoId == 1 .. MaxLogos
Fresh == [cmd |-> "none", phase |-> "new", file |-> Nothing, logo |-> NoLogo, activate |-> FALSE,
          reused |-> FALSE, before |-> Nothing, after |-> Nothing]
Over == [Fresh EXCEPT !.phase = "over"]

SettingsRow == {row \in [Field -> Value \cup {Cleared}] :
                  \A f \in Field : row[f] = Cleared => f \in NullableField}

OrganizationInit ==
  /\ name \in Name
  /\ logos = [l \in {} |-> Nothing] /\ chosen = NoLogo /\ nextId = 1
  /\ audit = {} /\ effects = {}
  /\ creq = [c \in Change |-> Fresh]
  /\ settings \in {NoSettings} \cup SettingsRow    \* registration creates a row, a seed may not
  /\ forms = [a \in Admin |-> NoForm] /\ saves = 0

Goes(c, q) == creq' = [creq EXCEPT ![c] = q]
Read(c, q) == creq[c] = Fresh /\ Goes(c, q) /\ UNCHANGED <<rows, effects, settingsVars>>
At(c, phase) == creq[c].phase = phase
Effect(c, what, of) == [by |-> c, what |-> what, of |-> of]

(* The connection drops, a constraint fails: what is written stays written.     *)
Stop(c) ==
  /\ creq[c] # Fresh /\ creq[c] # Over
  /\ Goes(c, Over) /\ UNCHANGED <<rows, effects, settingsVars>>
---------------------------------------------------------------------------
(* POST /branding/logos: a file the organization already has is reused.          *)

Stored(f) == {l \in DOMAIN logos : logos[l] = f}

(* Mutant of FindByChecksum: a reused logo is reported as shown, not selected.      *)
ReuseUnselected(c, f, activate) ==
  LET q == [Fresh EXCEPT !.cmd = "upload", !.file = f, !.activate = activate] IN
  \/ Stored(f) = {} /\ Read(c, [q EXCEPT !.phase = "create"])
  \/ \E l \in Stored(f) :
       Read(c, [q EXCEPT !.phase = "audit", !.logo = l, !.reused = TRUE])

FindByChecksum(c, f, activate) ==
  LET q == [Fresh EXCEPT !.cmd = "upload", !.file = f, !.activate = activate] IN
  \/ Stored(f) = {} /\ Read(c, [q EXCEPT !.phase = "create"])
  \/ \E l \in Stored(f) :
       Read(c, [q EXCEPT !.phase = IF activate THEN "select" ELSE "audit", !.logo = l,
                         !.reused = TRUE])

(* The unique index on (organization, checksum) refuses a second copy.           *)
CreateLogo(c) ==
  LET q == creq[c] IN
  /\ At(c, "create") /\ Stored(q.file) = {} /\ nextId <= MaxLogos
  /\ logos' = [l \in DOMAIN logos \cup {nextId} |-> IF l = nextId THEN q.file ELSE logos[l]]
  /\ nextId' = nextId + 1
  /\ effects' = effects \cup {Effect(c, "stored", nextId)}
  /\ Goes(c, [q EXCEPT !.phase = IF q.activate THEN "select" ELSE "audit", !.logo = nextId])
  /\ UNCHANGED <<name, chosen, audit, settingsVars>>

(* POST /branding/logo: one of the organization's own, or none.                  *)
FindOwned(c, l) ==
  /\ l # NoLogo => l \in DOMAIN logos
  /\ Read(c, [Fresh EXCEPT !.cmd = "select", !.phase = "select", !.logo = l])

(* selectLogo's upsert; the foreign key refuses a logo that is gone by now.       *)
SelectLogo(c) ==
  LET q == creq[c] IN
  /\ At(c, "select")
  /\ q.logo = NoLogo \/ q.logo \in DOMAIN logos
  /\ chosen' = q.logo
  /\ effects' = effects \cup {Effect(c, "chosen", q.logo)}
  /\ Goes(c, [q EXCEPT !.phase = "audit"])
  /\ UNCHANGED <<name, logos, audit, nextId, settingsVars>>

(* DELETE /branding/logos/:id.  The reference is ON DELETE SET NULL.              *)
FindToDelete(c, l) ==
  /\ l \in DOMAIN logos
  /\ Read(c, [Fresh EXCEPT !.cmd = "delete", !.phase = "delete", !.logo = l])

ChosenAfterDelete(l) == IF chosen = l THEN NoLogo ELSE chosen

DeleteLogo(c) ==
  LET l == creq[c].logo IN
  /\ At(c, "delete") /\ l \in DOMAIN logos
  /\ logos' = [k \in DOMAIN logos \ {l} |-> logos[k]]
  /\ chosen' = ChosenAfterDelete(l)
  /\ effects' = effects \cup {Effect(c, "deleted", l)}
  /\ Goes(c, [creq[c] EXCEPT !.phase = "audit"])
  /\ UNCHANGED <<name, audit, nextId, settingsVars>>
---------------------------------------------------------------------------
(* PATCH /organization: the old name is read for the audit row, then overwritten, if the  *)
(* request carries one.  The row as updated goes into the audit.                        *)

ReadName(c, n) ==
  Read(c, [Fresh EXCEPT !.cmd = "rename", !.phase = "rename", !.before = name, !.after = n])

Rename(c) ==
  LET named == IF creq[c].after = Nothing THEN name ELSE creq[c].after IN
  /\ At(c, "rename")
  /\ name' = named
  /\ effects' = effects \cup {Effect(c, "renamed", named)}
  /\ Goes(c, [creq[c] EXCEPT !.phase = "audit", !.after = named])
  /\ UNCHANGED <<logos, chosen, audit, nextId, settingsVars>>

AuditRow(c) ==
  LET q == creq[c] IN
  [by |-> c, after |-> q.after, logo |-> q.logo, activated |-> q.activate,
   action |-> CASE q.cmd = "upload" -> IF q.reused THEN "logo_reused" ELSE "logo_uploaded"
                [] q.cmd = "select" -> "logo_selected"
                [] q.cmd = "delete" -> "logo_deleted"
                [] q.cmd = "rename" -> "organization.updated"]

RecordAudit(c) ==
  /\ At(c, "audit")
  /\ audit' = audit \cup {AuditRow(c)}
  /\ Goes(c, Over)
  /\ UNCHANGED <<name, logos, chosen, nextId, effects, settingsVars>>
---------------------------------------------------------------------------
(* The settings form: it opens on what GET /settings says, sends every field it shows,  *)
(* edited or not, and stays open.                                              *)

PresentSettings == IF settings = NoSettings THEN Default ELSE settings

OpenForm(a) ==
  /\ forms[a] = NoForm
  /\ forms' = [forms EXCEPT ![a] = [opened |-> PresentSettings, fields |-> PresentSettings,
                                    edited |-> {}]]
  /\ UNCHANGED <<settings, saves, requestVars>>

LeaveForm(a) ==
  /\ forms[a] # NoForm
  /\ forms' = [forms EXCEPT ![a] = NoForm]
  /\ UNCHANGED <<settings, saves, requestVars>>

EditField(a, f, v) ==
  /\ forms[a] # NoForm /\ (v = Cleared => f \in NullableField)
  /\ forms' = [forms EXCEPT ![a] = [opened |-> @.opened, fields |-> [@.fields EXCEPT ![f] = v],
                                  edited |-> @.edited \cup {f}]]
  /\ UNCHANGED <<settings, saves, requestVars>>

Submitted(a) == [f \in OnForm |-> forms[a].fields[f]]

(* Mutant of DefinedOnly: what the patch leaves out goes back to the default.        *)
RestDefaulted(row, patch) ==
  [f \in Field |-> IF f \in DOMAIN patch THEN patch[f] ELSE Default[f]]

DefinedOnly(row, patch) == [f \in Field |-> IF f \in DOMAIN patch THEN patch[f] ELSE row[f]]

(* PATCH /settings: a field the request does not mention is left alone, an explicit null  *)
(* clears it; a row that is not there is created with the defaults.  The answer may be     *)
(* lost, and then the form still shows its edits as unsaved.                          *)
SaveForm(a) ==
  /\ forms[a] # NoForm /\ saves < MaxSaves
  /\ settings' = DefinedOnly(PresentSettings, Submitted(a))
  /\ saves' = saves + 1
  /\ \/ forms' = [forms EXCEPT ![a] = [opened |-> settings', fields |-> forms[a].fields,
                                       edited |-> {}]]
     \/ UNCHANGED forms
  /\ UNCHANGED requestVars
---------------------------------------------------------------------------
Begin(c) ==
  \/ \E f \in File, activate \in BOOLEAN : FindByChecksum(c, f, activate)
  \/ \E l \in LogoId \cup {NoLogo} : FindOwned(c, l)
  \/ \E l \in LogoId : FindToDelete(c, l)
  \/ \E n \in Name \cup {Nothing} : ReadName(c, n)

GoOn(c) ==
  CreateLogo(c) \/ SelectLogo(c) \/ DeleteLogo(c) \/ Rename(c) \/ RecordAudit(c) \/ Stop(c)

RequestNext == \E c \in Change : Begin(c) \/ GoOn(c)
SettingsNext ==
  \E a \in Admin :
    \/ OpenForm(a) \/ LeaveForm(a) \/ SaveForm(a)
    \/ \E f \in OnForm, v \in Value \cup {Cleared} : EditField(a, f, v)

OrganizationNext == RequestNext \/ SettingsNext

OrganizationSpec == OrganizationInit /\ [][OrganizationNext]_organizationVars
---------------------------------------------------------------------------
(* Properties.                                                               *)

(* The audit trail may miss a change (the process stopped before it wrote the row:   *)
(* the trade recordAudit states), but it never tells of one that was not made.        *)
AuditNeverInvents ==
  \A row \in audit :
    CASE row.action = "logo_uploaded" ->
           /\ Effect(row.by, "stored", row.logo) \in effects
           /\ row.activated => Effect(row.by, "chosen", row.logo) \in effects
      [] row.action = "logo_reused" ->
           row.activated => Effect(row.by, "chosen", row.logo) \in effects
      [] row.action = "logo_selected" -> Effect(row.by, "chosen", row.logo) \in effects
      [] row.action = "logo_deleted" -> Effect(row.by, "deleted", row.logo) \in effects
      [] row.action = "organization.updated" -> Effect(row.by, "renamed", row.after) \in effects

(* A save changes a setting its administrator did not touch in one way only: it undoes   *)
(* what a colleague saved since the form was opened.  No save resets a setting the form     *)
(* does not show, and none to a value nobody saw (admin.ts, PATCH /settings).             *)
SavesOnlyUndo ==
  [][\A f \in Field : PresentSettings'[f] # PresentSettings[f] =>
       \E a \in Admin :
         /\ forms[a] # NoForm /\ f \in OnForm
         /\ PresentSettings'[f] = forms[a].fields[f]
         /\ f \notin forms[a].edited => PresentSettings'[f] = forms[a].opened[f]]_settings

(* platform.ts: "a patch carries only what changed".  Not so: the form sends whatever it    *)
(* shows, and a colleague's change goes with a save that never meant it.                  *)
OnlyWhatChanged ==
  [][\A f \in Field : PresentSettings'[f] # PresentSettings[f] =>
       \E a \in Admin : forms[a] # NoForm /\ f \in forms[a].edited]_settings
=============================================================================
