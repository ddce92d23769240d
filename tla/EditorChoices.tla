---------------------------- MODULE EditorChoices ----------------------------
(***************************************************************************)
(* The two choices of a profile that the editor offers in a combo box, the *)
(* browser (with an entry for a custom command) and the reported OS: from  *)
(* the widgets to the profile, and from there to gpauth's arguments, to    *)
(* gpclient's environment and to the program that the browser helper runs. *)
(*                                                                         *)
(* The editor cannot show every value that `nmcli connection modify' can   *)
(* store.  A combo box whose active id is set to a text it does not have   *)
(* has no active id; a value of the browser that is not in the combo box   *)
(* is shown as a custom one.  Edits happen between runs of the helper.     *)
(***************************************************************************)

CONSTANTS
    Custom,     \* browser commands of the user's own
    OddOs,      \* texts for the reported OS that the editor does not offer
    Program     \* programs that may be installed, a subset of AllPrograms

None == "none"      \* no item in the profile, no active id, an empty entry

BrowserIds == {"default", "firefox", "chrome", "chromium", "remote"}
OsIds == {"default", "Linux", "Windows", "Mac"}

\* "portal" is a session bus with gdbus, "snap" and "flatpak" a Firefox
\* installed that way.
AllPrograms == {"portal", "gio", "firefox", "firefox-esr", "snap", "flatpak",
                "google-chrome-stable", "google-chrome"}

\* Words that a profile may hold and that the helper, but not the editor, knows.
Words == BrowserIds \cup {"auto", "manual"}

ASSUME ConstantsAssumption ==
    /\ Custom \cap (Words \cup {"custom", None}) = {}
    /\ OddOs \cap (OsIds \cup {None}) = {}
    /\ Program \subseteq AllPrograms

VARIABLES
    browser,    \* the profile's data items
    os,
    editor,     \* the widgets, or Closed
    touched,    \* history: the user changed a widget since the editor was opened
    chosen,     \* history: the browser the user saw when saving, or None
    launch      \* the last run of the browser helper, or NoLaunch

vars == <<browser, os, editor, touched, chosen, launch>>

Widgets == [combo : BrowserIds \cup {"custom"},
            custom_entry : Custom \cup Words \cup {None},
            os : OsIds \cup {None}]
Closed == [combo |-> None, custom_entry |-> None, os |-> None]
NoLaunch == [browser |-> None, installed |-> {}, command |-> None]

TypeOK ==
    /\ browser \in Custom \cup Words \cup {None}
    /\ os \in OsIds \cup OddOs \cup {None}
    /\ editor \in Widgets \cup {Closed}
    /\ touched \in BOOLEAN
    /\ chosen \in Custom \cup Words \cup {None}
    /\ launch.browser \in Custom \cup Words \cup {None}
    /\ launch.installed \subseteq Program

\* A new profile.
Init ==
    /\ browser = None /\ os = None
    /\ editor = Closed /\ touched = FALSE /\ chosen = None
    /\ launch = NoLaunch

-----------------------------------------------------------------------------
(* The editor.                                                             *)

browser_is_known(b) == b \in BrowserIds

\* Faulty variant: what is not in the combo box is shown as the default.
new_browser_combo_lossy(b) == IF browser_is_known(b) THEN b ELSE "default"

\* The combo box for the browser: a value it does not have is a custom one.
new_browser_combo(b) == IF browser_is_known(b) THEN b ELSE "custom"

\* The widgets for the profile.
Shown ==
    [combo |-> new_browser_combo(IF browser = None THEN "default" ELSE browser),
     custom_entry |-> IF browser_is_known(browser) THEN None ELSE browser,
     os |-> CASE os = None -> "default" [] os \in OsIds -> os [] OTHER -> None]

Open ==
    /\ editor = Closed /\ launch = NoLaunch
    /\ editor' = Shown
    /\ touched' = FALSE
    /\ UNCHANGED <<browser, os, chosen, launch>>

\* The user changes a widget; the entry is reachable only for "Custom", and
\* keeps its text when another browser is chosen.
Touch ==
    /\ editor # Closed
    /\ \/ \E b \in BrowserIds \cup {"custom"} : editor' = [editor EXCEPT !.combo = b]
       \/ \E t \in Custom \cup Words \cup {None} :
             /\ editor.combo = "custom"
             /\ editor' = [editor EXCEPT !.custom_entry = t]
       \/ \E o \in OsIds : editor' = [editor EXCEPT !.os = o]
    /\ touched' = TRUE
    /\ UNCHANGED <<browser, os, chosen, launch>>

\* Faulty variants: a text in the entry counts whatever is chosen; the id of
\* the combo box is taken for the command.
browser_get_value_stale(w) == IF w.custom_entry # None THEN w.custom_entry ELSE w.combo
browser_get_value_id(w) == w.combo

browser_get_value(w) == IF w.combo = "custom" THEN w.custom_entry ELSE w.combo

\* The browser the user sees: an empty entry for "Custom" asks for nothing in
\* particular.
Seen(w) ==
    CASE w.combo # "custom" -> w.combo
      [] w.combo = "custom" /\ w.custom_entry = None -> "default"
      [] OTHER -> w.custom_entry

\* The editor writes a new VPN setting: an item that is not added is gone.
\* It goes on showing what it saved.
Save ==
    /\ editor # Closed
    /\ browser' = browser_get_value(editor)
    /\ os' = IF editor.os \in {None, "default"} THEN None ELSE editor.os
    /\ chosen' = Seen(editor)
    /\ UNCHANGED <<editor, touched, launch>>

Close ==
    /\ editor # Closed
    /\ editor' = Closed
    /\ touched' = FALSE
    /\ UNCHANGED <<browser, os, chosen, launch>>

\* nmcli connection modify, while no editor is open.
HandEdit ==
    /\ editor = Closed /\ launch = NoLaunch
    /\ \/ browser' \in Custom \cup Words \cup {None} /\ UNCHANGED os
       \/ os' \in OsIds \cup OddOs \cup {None} /\ UNCHANGED browser
    /\ chosen' = None
    /\ UNCHANGED <<editor, touched, launch>>

-----------------------------------------------------------------------------
(* The programs that read the profile.                                     *)

\* gpauth's --browser, from the dialog; NM_GPCLIENT_BROWSER in gpclient's
\* environment, from the service.
DialogBrowser == IF browser = None THEN "default" ELSE browser
ServiceBrowser == IF browser # None THEN browser ELSE "default"

\* The first of two alternatives that is installed, or else the last word.
Either(p, q, installed, last) ==
    IF p \in installed THEN p ELSE IF q \in installed THEN q ELSE last

\* Faulty variant: without a native Firefox the desktop chooses.
HelperFirefox_default(installed) ==
    Either("firefox", "firefox-esr", installed, "xdg-open")

\* "fails" is exit status 127, and nothing is started.
HelperFirefox(installed) ==
    Either("firefox", "firefox-esr", installed,
           Either("snap", "flatpak", installed, "fails"))

\* The command the helper replaces itself by; "refuses" is exit status 2.
HelperCommand(b, installed) ==
    CASE b \in {"default", "auto"} -> Either("portal", "gio", installed, "xdg-open")
      [] b = "firefox" -> HelperFirefox(installed)
      [] b = "chrome" -> Either("google-chrome-stable", "google-chrome",
                                installed, "chromium")
      [] b = "chromium" -> "chromium"
      [] b \in {"remote", "manual"} -> "refuses"
      [] OTHER -> b

\* gpclient opens a browser of its own, with what is installed then.
Launch ==
    /\ editor = Closed /\ launch = NoLaunch
    /\ \E installed \in SUBSET Program :
          launch' = [browser |-> browser, installed |-> installed,
                     command |-> HelperCommand(ServiceBrowser, installed)]
    /\ UNCHANGED <<browser, os, editor, touched, chosen>>

BrowserDone ==
    /\ launch # NoLaunch
    /\ launch' = NoLaunch
    /\ UNCHANGED <<browser, os, editor, touched, chosen>>

Next == Open \/ Touch \/ Save \/ Close \/ HandEdit \/ Launch \/ BrowserDone

Spec == Init /\ [][Next]_vars

-----------------------------------------------------------------------------
(* Properties.                                                             *)

\* The browser that gpauth is given and the one the helper is given are the
\* one the user saw when saving, and the default where the user saw none: no
\* text that was left in the entry of a browser not chosen gets through.
ChoiceIsUsed ==
    chosen # None => DialogBrowser = chosen /\ ServiceBrowser = chosen

\* To open a profile and save it, with no change in between, changes neither
\* of the programs' browsers, hand-made values included; nor the reported OS
\* if it is one the editor can show, a literal "default" and none being the
\* same to it.  (gtk_combo_box_set_active_id loses the others.)
SaveKeepsProfile ==
    [][~touched /\ Save =>
         /\ ServiceBrowser' = ServiceBrowser
         /\ os \notin OddOs => os' \in {os} \cup (IF os = "default" THEN {None} ELSE {})]_vars

\* "It never silently substitutes another browser for an explicit Firefox
\* choice" (README.md), and it fails only if none of the four is there; while
\* no other choice of the editor's combo box starts Firefox by name.
FirefoxMeansFirefox ==
    LET fox == {"firefox", "firefox-esr", "snap", "flatpak"}
    IN  /\ launch.browser = "firefox" =>
              \/ launch.command \in fox \cap launch.installed
              \/ launch.command = "fails" /\ fox \cap launch.installed = {}
        /\ launch.browser \in BrowserIds \ {"firefox"} => launch.command \notin fox
=============================================================================
