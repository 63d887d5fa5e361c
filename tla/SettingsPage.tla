----------------------------- MODULE SettingsPage -----------------------------
(***************************************************************************)
(* The settings (SettingsView.tsx, useSettings.ts).  A change of the sound, *)
(* its volume or desktop notifications, which need the browser's           *)
(* permission, runs the socket effect again.  Theme and refresh interval   *)
(* change nothing else: nothing polls.                                     *)
(***************************************************************************)
EXTENDS Dashboard

VARIABLE asking     \* the browser shows its question about notifications

OnSettings == Screen = "settings"

SettingsTypeOK == asking \in BOOLEAN

updateSetting(field, value) ==
  settings' = [settings EXCEPT ![field] = value]

Changed ==
  /\ RestartSocket
  /\ UNCHANGED <<session, shown, activeView, toasts, opening, notified, checks,
                 calls, backend>>

ChangedQuietly ==
  UNCHANGED <<session, shown, activeView, toasts, socketVars, opening, notified,
              checks, calls, backend>>

ChooseTheme(theme) ==
  /\ OnSettings /\ settings.theme # theme
  /\ Spend("sets")
  /\ updateSetting("theme", theme)
  /\ ChangedQuietly
  /\ UNCHANGED asking

ChooseInterval(seconds) ==
  /\ OnSettings /\ settings.autoRefreshInterval # seconds
  /\ Spend("sets")
  /\ updateSetting("autoRefreshInterval", seconds)
  /\ ChangedQuietly
  /\ UNCHANGED asking

ToggleSound ==
  /\ OnSettings
  /\ Spend("sets")
  /\ updateSetting("soundEnabled", ~settings.soundEnabled)
  /\ Changed
  /\ UNCHANGED asking

(* The slider is drawn while the sound is on; volumes are not told apart. *)
handleVolumeChange ==
  /\ OnSettings /\ settings.soundEnabled
  /\ Spend("sets")
  /\ UNCHANGED settings
  /\ Changed
  /\ UNCHANGED asking

requestDesktopNotificationPermission ==
  /\ OnSettings
  /\ Spend("sets")
  /\ \/ /\ settings.permission = "granted"
        /\ updateSetting("desktopNotifications", ~settings.desktopNotifications)
        /\ Changed
        /\ UNCHANGED asking
     \/ /\ settings.permission = "default"
        /\ asking' = TRUE
        /\ UNCHANGED <<rest, calls>>

(* The answer sets the value whatever has happened to the page since. *)
PermissionAnswered(permission) ==
  /\ asking
  /\ asking' = FALSE
  /\ settings' = [settings EXCEPT !.permission = permission,
                    !.desktopNotifications = @ \/ permission = "granted"]
  /\ IF token /\ settings'.desktopNotifications # settings.desktopNotifications
     THEN RestartSocket ELSE UNCHANGED socketVars
  /\ UNCHANGED <<session, shown, activeView, toasts, opening, notified, checks,
                 calls, backend, budget>>

SettingsStep ==
  \/ \E theme \in {"light", "dark"} : ChooseTheme(theme)
  \/ \E seconds \in Interval : ChooseInterval(seconds)
  \/ ToggleSound \/ handleVolumeChange \/ requestDesktopNotificationPermission
  \/ \E permission \in {"granted", "denied"} : PermissionAnswered(permission)
=============================================================================
