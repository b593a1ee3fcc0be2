---------------------------- MODULE SettingFields ----------------------------
(***************************************************************************)
(* The controls that are bound to a stored setting (src/ui/src/components):*)
(*                                                                         *)
(*   "general"      the fields of general_settings, one on the settings    *)
(*                  page and one, the password, in the header              *)
(*                  (connectedGeneralSettingInputs.svelte)                 *)
(*   "text"         a field saved when it is left                          *)
(*                  (connectedSettingInput.svelte); "secret" is one of an  *)
(*                  API key and "url" the one of the local model's URL     *)
(*   "toggle"       a switch (toggle.svelte, httpsToggle.svelte)           *)
(*   "certificate"  a PEM text (connectedCertificateBasic.svelte)          *)
(*                                                                         *)
(* `control' says which one the behavior is about.  The library's inputs   *)
(* keep the text they show themselves and take over a new value of the     *)
(* property they are given only when that property changes: `text' is what *)
(* the input shows.                                                        *)
(***************************************************************************)
EXTENDS WebCommon

CONSTANTS SettingValues,  \* values of a setting
          NoValue,        \* the empty value, not one of them
          UrlOf,          \* what the server makes of a URL: trims it, or None: refuses it
          MaxFieldOps     \* bound: requests of the administrator

ASSUME FieldsAssumption ==
  /\ NoValue \notin SettingValues /\ None \notin BOOLEAN /\ MaxFieldOps \in Nat
  /\ UrlOf \in [SettingValues \cup {NoValue} -> SettingValues \cup {NoValue, None}]

VARIABLES control, field, fieldNet,
          setting    \* on the server: log_location and admin_password, or one value

fieldVars == <<control, field, fieldNet, setting>>

TextControls == {"text", "secret", "url"}
Controls == TextControls \cup {"general", "toggle", "certificate"}
GeneralKeys == {"log_location", "admin_password"}

AnyValue == CHOOSE v \in SettingValues : TRUE

(***************************************************************************)
(* Requests.  behind: the control may disagree with the server, because a  *)
(* request failed, requests overlapped, or the answer to a save was lost.  *)
(***************************************************************************)
AskField(ui, op, args) ==
  /\ field.ops < MaxFieldOps
  /\ field' = [ui EXCEPT !.ops = @ + 1, !.behind = @ \/ fieldNet # {}]
  /\ fieldNet' = Send(fieldNet, op, args)
  /\ UNCHANGED <<control, setting>>

Reload(ui, r, args) ==
  /\ field' = ui
  /\ fieldNet' = Send(fieldNet \ {r}, "load", args)
  /\ UNCHANGED <<control, setting>>

FieldRests(ui, r) ==
  /\ field' = ui
  /\ fieldNet' = fieldNet \ {r}
  /\ UNCHANGED <<control, setting>>

(* Of an API key a load tells only whether there is one.                   *)
GSApiSettingsGET == IF control = "secret" THEN NoValue ELSE setting

(* The administrator's password is kept elsewhere, and no load returns it. *)
(* A URL that is refused changes nothing, and the answer is 200 all the    *)
(* same: the page cannot tell it from one that was stored.                 *)
GSApiSettingsPOST(value) ==
  CASE control = "general" -> [value EXCEPT !.admin_password = None]
    [] control = "url" -> IF UrlOf[value] = None THEN setting ELSE UrlOf[value]
    [] OTHER -> value

ServeField(r) ==
  /\ ~r.done
  /\ \/ /\ r.op = "load"
        /\ fieldNet' = Served(fieldNet, r, GSApiSettingsGET)
        /\ UNCHANGED setting
     \/ /\ r.op = "save"
        /\ setting' = GSApiSettingsPOST(r.args.value)
        /\ fieldNet' = Served(fieldNet, r, Unread)
  /\ UNCHANGED <<control, field>>

(***************************************************************************)
(* general_settings: every field holds a copy of all of them and saves all *)
(* of them.                                                                *)
(***************************************************************************)
GeneralInit ==
  /\ setting = [log_location |-> AnyValue, admin_password |-> None]
  /\ field = [data |-> [k \in GeneralKeys |-> None],
              internalFormValue |-> [k \in GeneralKeys |-> None],
              loading |-> [k \in GeneralKeys |-> TRUE], saving |-> [k \in GeneralKeys |-> FALSE],
              loggedOut |-> FALSE, ops |-> 0, behind |-> FALSE]
  /\ fieldNet = Send(Send({}, "load", [key |-> "log_location"]), "load", [key |-> "admin_password"])

(* The rest of loadAPIData; in the course of a save it also ends that.     *)
generalLoadAPIData(r, ok) ==
  /\ control = "general" /\ r.op = "load" /\ (ok => r.done)
  /\ LET k == r.args.key IN
     FieldRests([field EXCEPT !.loading[k] = FALSE, !.saving[k] = FALSE,
                   !.data[k] = IF ok THEN r.snap ELSE @,
                   !.behind = @ \/ ~ok], r)

generalUpdateNetwork(k, value) ==
  AskField([field EXCEPT !.saving[k] = TRUE, !.internalFormValue[k] = value],
           "save", [key |-> k, value |-> value])

(* updateField: an unchanged value is not taken.  The password waits for   *)
(* "Update password" (disableOnblur).                                      *)
generalUpdateField(k, value) ==
  /\ control = "general" /\ ~field.loggedOut
  /\ ~field.loading[k] /\ ~field.saving[k]
  /\ field.data[k] # None /\ value # field.data[k][k]
  /\ LET edited == [field.data[k] EXCEPT ![k] = value] IN
     IF k = "admin_password"
     THEN /\ field' = [field EXCEPT !.internalFormValue[k] = edited]
          /\ UNCHANGED <<control, fieldNet, setting>>
     ELSE generalUpdateNetwork(k, edited)

updateDataOnBackend ==
  /\ control = "general" /\ ~field.loggedOut
  /\ field.internalFormValue["admin_password"] # None
  /\ generalUpdateNetwork("admin_password", field.internalFormValue["admin_password"])

(* After a new password the session is over; any other field is reloaded.  *)
generalSaved(r, ok) ==
  /\ control = "general" /\ r.op = "save" /\ (ok => r.done)
  /\ LET k == r.args.key
         sent == [field EXCEPT !.internalFormValue[k] = None]
     IN IF ~ok THEN FieldRests([field EXCEPT !.saving[k] = FALSE, !.behind = TRUE], r)
        ELSE IF k = "admin_password"
        THEN FieldRests([sent EXCEPT !.saving[k] = FALSE, !.loggedOut = TRUE], r)
        ELSE Reload([sent EXCEPT !.loading[k] = TRUE], r, [key |-> k])

(***************************************************************************)
(* One setting, saved when the field is left.                              *)
(***************************************************************************)
TextInit ==
  /\ setting = AnyValue
  /\ field = [data |-> NoValue, persistedValue |-> NoValue, internalFormValue |-> NoValue,
              text |-> NoValue, loaded |-> FALSE, saving |-> FALSE, saveError |-> FALSE,
              ops |-> 0, behind |-> FALSE]
  /\ fieldNet = Send({}, "load", None)

(* A new value of data is shown by the input.                              *)
Show(ui, v) == [ui EXCEPT !.text = IF ui.data # v THEN v ELSE @, !.data = v]

textLoadAPIData(r, ok) ==
  /\ control \in TextControls /\ r.op = "load" /\ (ok => r.done)
  /\ FieldRests(IF ok THEN [Show(field, r.snap) EXCEPT !.persistedValue = r.snap,
                              !.internalFormValue = r.snap, !.loaded = TRUE]
                ELSE [field EXCEPT !.saveError = TRUE, !.loaded = TRUE, !.behind = TRUE], r)

updateInternalValue(v) ==
  /\ control \in TextControls /\ field.loaded /\ v # field.text
  /\ field' = [field EXCEPT !.internalFormValue = v, !.text = v]
  /\ UNCHANGED <<control, fieldNet, setting>>

(* updateField and updateNetwork up to the await: what is left during a    *)
(* save, or equals the stored value, is not sent.                          *)
textUpdateField ==
  /\ control \in TextControls /\ field.loaded
  /\ field.text # field.persistedValue /\ ~field.saving
  /\ AskField([field EXCEPT !.internalFormValue = field.text, !.saving = TRUE, !.saveError = FALSE],
              "save", [value |-> field.text])

textUpdateNetwork(r, ok) ==
  /\ control \in TextControls /\ r.op = "save" /\ (ok => r.done)
  /\ FieldRests(IF ok THEN [Show(field, r.args.value) EXCEPT
                              !.persistedValue = r.args.value, !.saving = FALSE]
                ELSE [Show(field, field.persistedValue) EXCEPT
                        !.internalFormValue = field.persistedValue, !.saving = FALSE,
                        !.saveError = TRUE, !.behind = TRUE], r)

(***************************************************************************)
(* A switch.  The library's switch turns at once; `text' is its position.  *)
(* Until a load has succeeded a spinner is in its place.                   *)
(***************************************************************************)
ToggleInit ==
  /\ setting \in BOOLEAN
  /\ field = [settingValue |-> None, text |-> FALSE, notice |-> FALSE, loadFailed |-> FALSE, ops |-> 0, behind |-> FALSE]
  /\ fieldNet = Send({}, "load", None)

toggleLoadAPIData(r, ok) ==
  /\ control = "toggle" /\ r.op = "load" /\ (ok => r.done)
  /\ FieldRests([field EXCEPT !.settingValue = IF ok THEN r.snap ELSE @,
                              !.text = IF ok /\ field.settingValue # r.snap THEN r.snap ELSE @,
                              !.loadFailed = @ \/ ~ok, !.behind = @ \/ ~ok], r)

(* reviewPrivacyBeforeEnable of httpsToggle does not hold the save back:   *)
(* the privacy notice opens while the setting is being saved.              *)
toggleSettingStatus ==
  /\ control = "toggle" /\ field.settingValue # None
  /\ AskField([field EXCEPT !.text = ~@, !.notice = @ \/ ~field.settingValue],
              "save", [value |-> ~field.settingValue])

closeNotice ==
  /\ control = "toggle" /\ field.notice
  /\ field' = [field EXCEPT !.notice = FALSE]
  /\ UNCHANGED <<control, fieldNet, setting>>

toggleSaved(r, ok) ==
  /\ control = "toggle" /\ r.op = "save" /\ (ok => r.done)
  /\ IF ok THEN Reload([field EXCEPT !.behind = @ \/ fieldNet # {r}], r, None)
     ELSE FieldRests([field EXCEPT !.behind = TRUE], r)

(***************************************************************************)
(* A PEM text.  Leaving it always saves it, changed or not.                *)
(***************************************************************************)
CertificateInit ==
  /\ setting = AnyValue
  /\ field = [data |-> NoValue, text |-> NoValue, ops |-> 0, behind |-> FALSE]
  /\ fieldNet = Send({}, "load", None)

certificateLoadAPIData(r, ok) ==
  /\ control = "certificate" /\ r.op = "load" /\ (ok => r.done)
  /\ FieldRests(IF ok THEN Show(field, r.snap) ELSE [field EXCEPT !.behind = TRUE], r)

TypeCertificate(v) ==
  /\ control = "certificate" /\ v # field.text
  /\ field' = [field EXCEPT !.text = v]
  /\ UNCHANGED <<control, fieldNet, setting>>

onBlur ==
  /\ control = "certificate"
  /\ AskField(field, "save", [value |-> field.text])

(* A failed save is not caught, and leaves the text without a reload.      *)
certificateSaved(r, ok) ==
  /\ control = "certificate" /\ r.op = "save" /\ (ok => r.done)
  /\ IF ok THEN Reload([field EXCEPT !.behind = @ \/ fieldNet # {r}], r, None)
     ELSE FieldRests([field EXCEPT !.behind = TRUE], r)

FieldsInit ==
  /\ control \in Controls
  /\ \/ control = "general" /\ GeneralInit
     \/ control \in TextControls /\ TextInit
     \/ control = "toggle" /\ ToggleInit
     \/ control = "certificate" /\ CertificateInit

FieldsNext ==
  \/ \E v \in SettingValues \cup {NoValue} :
       \/ \E k \in GeneralKeys : generalUpdateField(k, v)
       \/ updateInternalValue(v) \/ TypeCertificate(v)
  \/ updateDataOnBackend \/ textUpdateField \/ toggleSettingStatus \/ closeNotice \/ onBlur
  \/ \E r \in fieldNet :
       \/ ServeField(r)
       \/ \E ok \in BOOLEAN :
            \/ generalLoadAPIData(r, ok) \/ generalSaved(r, ok)
            \/ textLoadAPIData(r, ok) \/ textUpdateNetwork(r, ok)
            \/ toggleLoadAPIData(r, ok) \/ toggleSaved(r, ok)
            \/ certificateLoadAPIData(r, ok) \/ certificateSaved(r, ok)

(* The value a field was given, or has sent, stands for the stored one.    *)
(* The server tells no API key, so such a field is empty until one is      *)
(* saved.  A URL is stored trimmed; one that was refused, and not stored,  *)
(* is shown as saved.                                                      *)
StandsFor(v) ==
  CASE control = "text" -> v = setting
    [] control = "secret" -> v \in {NoValue, setting}
    [] control = "url" -> v = setting \/ UrlOf[v] \in {setting, None}

(* Once no request is under way, what a control takes for the stored value *)
(* is the stored one: the copy of general_settings, persistedValue of a    *)
(* field, settingValue and the position of a switch, data of a certificate.*)
(* The text in an input is no part of it, for it may be being typed.       *)
(* Left out are controls whose requests failed or overlapped (behind).     *)
(* The password and the log location are saved together: the log location  *)
(* on the screen is the stored one while no password was sent.             *)
FieldsAgree ==
  fieldNet = {} /\ ~field.behind =>
    CASE control = "general" -> field.loggedOut \/ field.data["log_location"].log_location = setting.log_location
      [] control \in TextControls -> StandsFor(field.persistedValue)
      [] control = "toggle" -> field.settingValue = setting /\ field.text = setting
      [] control = "certificate" -> field.data = setting

(* Nothing shows as loading or saving without a request under way, with    *)
(* one exception: a switch whose load failed shows its spinner for as long *)
(* as its page is open, for nothing loads it again.                        *)
FieldsBusy ==
  CASE control = "general" -> \A k \in GeneralKeys :
                                field.loading[k] \/ field.saving[k] => \E r \in fieldNet : r.args.key = k
    [] control \in TextControls -> field.saving \/ ~field.loaded => fieldNet # {}
    [] control = "toggle" -> field.settingValue = None => fieldNet # {} \/ field.loadFailed
    [] control = "certificate" -> TRUE
=============================================================================
