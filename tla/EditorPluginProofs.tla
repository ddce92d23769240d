--------------------------- MODULE EditorPluginProofs ---------------------------
(***************************************************************************)
(* Proofs about the editor and its loader, for every set of custom browser *)
(* commands, of texts for the reported OS, and of installed programs.      *)
(*                                                                         *)
(* The editor's properties are proved of EditorChoices' own specification, *)
(* which the composition with the loader implements.                       *)
(***************************************************************************)
EXTENDS EditorPlugin, TLAPS

\* An editor nobody has touched shows the profile as it is; if it was saved,
\* an OS text it could not show is gone from the profile, not from the editor.
UntouchedFits ==
    editor # Closed /\ ~touched =>
        /\ editor.combo = Shown.combo /\ editor.custom_entry = Shown.custom_entry
        /\ editor.os = Shown.os \/ (os = None /\ editor.os = None)

\* The helper was run with what the service reads from the profile.
LaunchFits ==
    \/ launch = NoLaunch
    \/ /\ launch.browser \in Custom \cup Words \cup {None}
       /\ launch.installed \subseteq Program
       /\ launch.command = HelperCommand(IF launch.browser = None THEN "default"
                                         ELSE launch.browser, launch.installed)

EditorInv == TypeOK /\ UntouchedFits /\ LaunchFits /\ ChoiceIsUsed

-----------------------------------------------------------------------------
(* The widgets.                                                            *)

\* No text of the user's is one of the words that mean something else.
LEMMA TextsApart ==
  /\ \A c \in Custom : c \notin BrowserIds /\ c # "custom" /\ c # None
  /\ \A o \in OddOs : o \notin OsIds /\ o # None
<1>1. BrowserIds \subseteq Words
  BY DEF Words
<1> QED BY <1>1, ConstantsAssumption

\* An open editor is never taken for none, since its combo box always has an
\* active browser.
LEMMA ClosedIsNoWidget == Closed \notin Widgets
<1>1. None \notin BrowserIds \cup {"custom"}
  BY DEF None, BrowserIds
<1> QED BY <1>1 DEF Closed, Widgets

LEMMA WidgetFields ==
  ASSUME NEW w \in Widgets
  PROVE  /\ w.combo \in BrowserIds \cup {"custom"}
         /\ w.custom_entry \in Custom \cup Words \cup {None}
         /\ w.os \in OsIds \cup {None}
  BY DEF Widgets

LEMMA ShownIsWidget ==
  ASSUME TypeOK
  PROVE  Shown \in Widgets
<1>1. new_browser_combo(IF browser = None THEN "default" ELSE browser)
         \in BrowserIds \cup {"custom"}
  BY DEF new_browser_combo, browser_is_known
<1>2. (IF browser_is_known(browser) THEN None ELSE browser) \in Custom \cup Words \cup {None}
  BY DEF TypeOK
<1>3. Shown.os \in OsIds \cup {None}
  <2>1. CASE os = None
    BY <2>1 DEF Shown, OsIds
  <2>2. CASE os \in OsIds
    BY <2>2 DEF Shown, OsIds, None
  <2>3. CASE os \notin OsIds \cup {None}
    BY <2>3 DEF Shown
  <2> QED BY <2>1, <2>2, <2>3
<1>4. Shown = [combo |-> Shown.combo, custom_entry |-> Shown.custom_entry, os |-> Shown.os]
  BY DEF Shown
<1>5. /\ Shown.combo = new_browser_combo(IF browser = None THEN "default" ELSE browser)
      /\ Shown.custom_entry = IF browser_is_known(browser) THEN None ELSE browser
  BY DEF Shown
<1> QED BY <1>1, <1>2, <1>3, <1>4, <1>5 DEF Widgets

\* The three OS entries, without the CASE.
LEMMA ShownOs ==
  ASSUME TypeOK
  PROVE  /\ os = None => Shown.os = "default"
         /\ os \in OsIds => Shown.os = os
         /\ os \in OddOs => Shown.os = None
<1>1. os = None => Shown.os = "default"
  BY DEF Shown, OsIds, None
<1>2. os \in OsIds => Shown.os = os
  BY DEF Shown, OsIds, None
<1>3. os \in OddOs => Shown.os = None
  BY TextsApart DEF Shown
<1> QED BY <1>1, <1>2, <1>3

\* What the combo box and the entry show is written back as it was, or as the
\* "default" that means the same.
LEMMA ShownBrowser ==
  ASSUME TypeOK
  PROVE  /\ browser = None => Shown.combo = "default" /\ Shown.custom_entry = None
         /\ browser \in BrowserIds => Shown.combo = browser /\ Shown.custom_entry = None
         /\ browser \notin BrowserIds \cup {None} =>
               Shown.combo = "custom" /\ Shown.custom_entry = browser
<1>1. None \notin BrowserIds /\ "default" \in BrowserIds
  BY DEF BrowserIds, None
<1> QED BY <1>1 DEF Shown, new_browser_combo, browser_is_known

-----------------------------------------------------------------------------
(* The editor by itself.                                                   *)

LEMMA InitEditorInv == Init => EditorInv
<1> SUFFICES ASSUME Init PROVE EditorInv
  OBVIOUS
<1>1. TypeOK
  BY DEF Init, TypeOK, NoLaunch
<1>2. UntouchedFits /\ LaunchFits /\ ChoiceIsUsed
  BY DEF Init, UntouchedFits, LaunchFits, ChoiceIsUsed
<1> QED BY <1>1, <1>2 DEF EditorInv

LEMMA OpenInv == ASSUME EditorInv, Open PROVE EditorInv'
<1> USE DEF EditorInv, Open
<1>1. TypeOK'
  BY ShownIsWidget DEF TypeOK
<1>2. UntouchedFits'
  BY DEF UntouchedFits, Shown
<1>3. LaunchFits' /\ ChoiceIsUsed'
  BY DEF LaunchFits, ChoiceIsUsed, DialogBrowser, ServiceBrowser
<1> QED BY <1>1, <1>2, <1>3

LEMMA TouchInv == ASSUME EditorInv, Touch PROVE EditorInv'
<1> USE DEF EditorInv, Touch
<1>1. editor \in Widgets
  BY DEF TypeOK
<1>2. editor' \in Widgets
  <2>1. CASE \E b \in BrowserIds \cup {"custom"} : editor' = [editor EXCEPT !.combo = b]
    BY <1>1, <2>1 DEF Widgets
  <2>2. CASE \E t \in Custom \cup Words \cup {None} : editor' = [editor EXCEPT !.custom_entry = t]
    BY <1>1, <2>2 DEF Widgets
  <2>3. CASE \E o \in OsIds : editor' = [editor EXCEPT !.os = o]
    BY <1>1, <2>3 DEF Widgets
  <2> QED BY <2>1, <2>2, <2>3
<1>3. TypeOK'
  BY <1>2 DEF TypeOK
<1>4. UntouchedFits'
  BY DEF UntouchedFits
<1>5. LaunchFits' /\ ChoiceIsUsed'
  BY DEF LaunchFits, ChoiceIsUsed, DialogBrowser, ServiceBrowser
<1> QED BY <1>3, <1>4, <1>5

LEMMA SaveInv == ASSUME EditorInv, Save PROVE EditorInv'
<1> USE DEF EditorInv, Save
<1>1. editor \in Widgets
  BY DEF TypeOK
<1>2. /\ editor.combo \in BrowserIds \cup {"custom"}
      /\ editor.custom_entry \in Custom \cup Words \cup {None}
      /\ editor.os \in OsIds \cup {None}
  BY <1>1, WidgetFields
<1>3. BrowserIds \subseteq Words /\ "custom" \notin BrowserIds
  BY DEF Words, BrowserIds
<1>4. browser' \in Custom \cup Words \cup {None} /\ os' \in OsIds \cup {None}
  BY <1>2, <1>3 DEF browser_get_value
<1>5. /\ editor.combo \in BrowserIds => chosen' = editor.combo /\ browser' = editor.combo
      /\ editor.combo = "custom" /\ editor.custom_entry = None =>
            chosen' = "default" /\ browser' = None
      /\ editor.combo = "custom" /\ editor.custom_entry # None =>
            chosen' = editor.custom_entry /\ browser' = editor.custom_entry
  BY <1>3 DEF Seen, browser_get_value
<1>6. None \notin BrowserIds /\ "default" \in BrowserIds
  BY DEF BrowserIds, None
<1>7. chosen' \in Custom \cup Words
  BY <1>2, <1>3, <1>5, <1>6
<1>8. TypeOK'
  BY <1>4, <1>7 DEF TypeOK
<1>9. ChoiceIsUsed'
  BY <1>2, <1>5, <1>6 DEF ChoiceIsUsed, DialogBrowser, ServiceBrowser
<1>10. UntouchedFits'
  <2> SUFFICES ASSUME ~touched
               PROVE  /\ editor.combo = Shown.combo' /\ editor.custom_entry = Shown.custom_entry'
                      /\ editor.os = Shown.os' \/ (os' = None /\ editor.os = None)
    BY DEF UntouchedFits
  <2>1. /\ editor.combo = Shown.combo /\ editor.custom_entry = Shown.custom_entry
        /\ editor.os = Shown.os \/ (os = None /\ editor.os = None)
    BY DEF UntouchedFits
  <2>2. editor.combo = Shown.combo' /\ editor.custom_entry = Shown.custom_entry'
    <3>1. /\ browser' = None => Shown.combo' = "default" /\ Shown.custom_entry' = None
          /\ browser' \in BrowserIds => Shown.combo' = browser' /\ Shown.custom_entry' = None
          /\ browser' \notin BrowserIds \cup {None} =>
                Shown.combo' = "custom" /\ Shown.custom_entry' = browser'
      BY <1>6 DEF Shown, new_browser_combo, browser_is_known
    <3> QED BY <1>3, <1>5, <1>6, <2>1, <3>1, ShownBrowser
  <2>3. editor.os = Shown.os' \/ (os' = None /\ editor.os = None)
    <3>1. os' = None => Shown.os' = "default"
      BY DEF Shown, OsIds, None
    <3>2. os' \in OsIds => Shown.os' = os'
      BY DEF Shown, OsIds, None
    <3> QED BY <1>2, <3>1, <3>2
  <2> QED BY <2>2, <2>3
<1>11. LaunchFits'
  BY DEF LaunchFits
<1> QED BY <1>8, <1>9, <1>10, <1>11

LEMMA CloseInv == ASSUME EditorInv, Close PROVE EditorInv'
<1> USE DEF EditorInv, Close
<1>1. TypeOK'
  BY DEF TypeOK
<1>2. UntouchedFits' /\ LaunchFits' /\ ChoiceIsUsed'
  BY DEF UntouchedFits, LaunchFits, ChoiceIsUsed, DialogBrowser, ServiceBrowser
<1> QED BY <1>1, <1>2

LEMMA EditByHandInv == ASSUME EditorInv, HandEdit PROVE EditorInv'
<1> USE DEF EditorInv, HandEdit
<1>1. TypeOK'
  BY DEF TypeOK
<1>2. UntouchedFits' /\ LaunchFits' /\ ChoiceIsUsed'
  BY DEF UntouchedFits, LaunchFits, ChoiceIsUsed
<1> QED BY <1>1, <1>2

LEMMA LaunchInv == ASSUME EditorInv, Launch \/ BrowserDone PROVE EditorInv'
<1> USE DEF EditorInv
<1>1. UNCHANGED <<browser, os, editor, touched, chosen>>
  BY DEF Launch, BrowserDone
<1>2. LaunchFits'
  <2>1. CASE BrowserDone
    BY <2>1 DEF BrowserDone, LaunchFits
  <2>2. CASE Launch
    BY <2>2 DEF Launch, LaunchFits, ServiceBrowser, TypeOK
  <2> QED BY <2>1, <2>2
<1>3. TypeOK'
  BY <1>1, <1>2 DEF TypeOK, LaunchFits, NoLaunch
<1>4. UntouchedFits' /\ ChoiceIsUsed'
  BY <1>1 DEF UntouchedFits, ChoiceIsUsed, DialogBrowser, ServiceBrowser, Shown
<1> QED BY <1>2, <1>3, <1>4

LEMMA StepEditorInv == EditorInv /\ [Next]_vars => EditorInv'
<1> SUFFICES ASSUME EditorInv, [Next]_vars PROVE EditorInv'
  OBVIOUS
<1>1. CASE UNCHANGED vars
  BY <1>1 DEF vars, EditorInv, TypeOK, UntouchedFits, LaunchFits, ChoiceIsUsed,
     DialogBrowser, ServiceBrowser, Shown
<1>2. CASE Next
  BY <1>2, OpenInv, TouchInv, SaveInv, CloseInv, EditByHandInv, LaunchInv DEF Next
<1> QED BY <1>1, <1>2

LEMMA EditorInvHolds == Spec => []EditorInv
<1> QED BY InitEditorInv, StepEditorInv, PTL DEF Spec


-----------------------------------------------------------------------------
(* The editor in the process that loads it.                                *)

LoaderInv == PluginTypeOK /\ OneEditorModule

LEMMA NoneIsNoGtk == None \notin Gtk
  BY DEF None, Gtk

LEMMA ModuleIsGtk == editor_module \in Gtk
  BY DEF editor_module, Gtk

LEMMA InitLoaderInv == PluginInit => LoaderInv
<1>1. PluginInit => TypeOK
  BY InitEditorInv DEF PluginInit, EditorInv
<1> QED BY <1>1 DEF PluginInit, LoaderInv, PluginTypeOK, OneEditorModule

\* Whatever happens in the process is a step of the editor or none at all.
LEMMA PluginStepIsEditorStep ==
  [PluginNext]_<<vars, loaderVars>> => [Next]_vars
  BY DEF PluginNext, Next, plugin_get_editor, HostLoadsGtk, HostRestarts, FilesChange

\* The composition implements the editor's specification, so what holds of the
\* editor alone holds in every process that loads it.
LEMMA PluginImplementsEditor == PluginSpec => Spec
<1>1. PluginInit => Init
  BY DEF PluginInit
<1> QED BY <1>1, PluginStepIsEditorStep, PTL DEF PluginSpec, Spec

LEMMA StepLoaderInv ==
  LoaderInv /\ TypeOK' /\ [PluginNext]_<<vars, loaderVars>> => LoaderInv'
<1> SUFFICES ASSUME LoaderInv, TypeOK', [PluginNext]_<<vars, loaderVars>> PROVE LoaderInv'
  OBVIOUS
<1> USE DEF LoaderInv, PluginTypeOK, OneEditorModule
<1>1. CASE plugin_get_editor /\ load_editor(editor_module)
  BY <1>1, NoneIsNoGtk, ModuleIsGtk DEF load_editor, loaderVars
<1>2. CASE UNCHANGED loaderVars
  BY <1>2 DEF loaderVars
<1>3. CASE HostLoadsGtk \/ HostRestarts
  BY <1>3 DEF HostLoadsGtk, HostRestarts
<1>4. ASSUME NEW m \in Gtk, FilesChange(m) PROVE LoaderInv'
  BY <1>4 DEF FilesChange
<1> QED BY <1>1, <1>2, <1>3, <1>4 DEF PluginNext, plugin_get_editor, load_editor_fails

LEMMA LoaderInvHolds == PluginSpec => [](LoaderInv /\ EditorInv)
<1>1. EditorInv => TypeOK
  BY DEF EditorInv
<1> QED BY <1>1, InitLoaderInv, StepLoaderInv, EditorInvHolds, PluginImplementsEditor, PTL
       DEF PluginSpec

-----------------------------------------------------------------------------
(* What follows.                                                           *)

\* Types of the profile's two items, of the widgets and of the loader's cache.
THEOREM PluginTypeCorrect == PluginSpec => []PluginTypeOK
<1>1. LoaderInv => PluginTypeOK
  BY DEF LoaderInv
<1> QED BY <1>1, LoaderInvHolds, PTL

\* update_connection writes, and dialog and service read, the browser that the
\* user saw in the editor, for all texts the entry may hold.
THEOREM BrowserIsAsChosen == PluginSpec => []ChoiceIsUsed
<1>1. EditorInv => ChoiceIsUsed
  BY DEF EditorInv
<1> QED BY <1>1, LoaderInvHolds, PTL

\* The browser helper, for every set of installed programs: a Firefox if and
\* only if one was asked for and is there, of all the choices of the combo box.
THEOREM FirefoxIsFirefox == PluginSpec => []FirefoxMeansFirefox
<1>1. EditorInv => FirefoxMeansFirefox
  <2> SUFFICES ASSUME LaunchFits PROVE FirefoxMeansFirefox
    BY DEF EditorInv
  <2>1. CASE launch = NoLaunch
    BY <2>1 DEF NoLaunch, FirefoxMeansFirefox, None, BrowserIds
  <2>2. CASE launch.browser = "firefox" /\ launch # NoLaunch
    <3>1. launch.command = HelperFirefox(launch.installed)
      BY <2>2 DEF LaunchFits, HelperCommand, None
    <3> QED BY <2>2, <3>1 DEF HelperFirefox, Either, FirefoxMeansFirefox
  <2>3. CASE launch.browser \in BrowserIds \ {"firefox"} /\ launch # NoLaunch
    <3>1. launch.command = HelperCommand(launch.browser, launch.installed)
      BY <2>3 DEF LaunchFits, BrowserIds, None
    <3>2. launch.command \in {"portal", "gio", "xdg-open", "google-chrome-stable",
                              "google-chrome", "chromium", "refuses"}
      BY <2>3, <3>1 DEF HelperCommand, Either, BrowserIds
    <3> QED BY <2>3, <3>2 DEF FirefoxMeansFirefox
  <2>4. CASE launch.browser \notin BrowserIds
    BY <2>4 DEF FirefoxMeansFirefox, BrowserIds
  <2> QED BY <2>1, <2>2, <2>3, <2>4
<1> QED BY <1>1, LoaderInvHolds, PTL

\* load_editor's static cache: one module at most, for the life of the process.
THEOREM OneModuleForGood == PluginSpec => []OneEditorModule
<1>1. LoaderInv => OneEditorModule
  BY DEF LoaderInv
<1> QED BY <1>1, LoaderInvHolds, PTL

\* plugin_get_editor never opens the editor of one GTK in a process with the
\* other, although the cache outlives the choice of the module.
THEOREM EditorMatchesToolkit == PluginSpec => EditorFitsToolkit
<1>1. LoaderInv /\ [PluginNext]_<<vars, loaderVars>> =>
        (editor = Closed /\ editor' # Closed => toolkit \in {None, cached'})
  <2> SUFFICES ASSUME LoaderInv, PluginNext, editor = Closed, editor' # Closed
               PROVE  toolkit \in {None, cached'}
    BY DEF vars
  <2>1. plugin_get_editor /\ load_editor(editor_module)
    BY DEF PluginNext, plugin_get_editor, HostLoadsGtk, HostRestarts, FilesChange,
       Touch, Save, Close, HandEdit, Launch, BrowserDone, vars
  <2>2. cached' = editor_module
    BY <2>1 DEF load_editor, loaderVars
  <2> QED BY <2>2 DEF editor_module, LoaderInv, PluginTypeOK, Gtk
<1> QED BY <1>1, LoaderInvHolds, PTL DEF PluginSpec, EditorFitsToolkit

\* To open and save is not to edit: for every value nmcli can store, and as
\* often as the user saves, update_connection keeps the browser, and the OS if
\* the combo box has it.
THEOREM SavingKeepsProfile == PluginSpec => SaveKeepsProfile
<1>1. EditorInv /\ [Next]_vars =>
        (~touched /\ Save =>
           /\ ServiceBrowser' = ServiceBrowser
           /\ os \notin OddOs => os' \in {os} \cup (IF os = "default" THEN {None} ELSE {}))
  <2> SUFFICES ASSUME EditorInv, ~touched, Save
               PROVE  /\ ServiceBrowser' = ServiceBrowser
                      /\ os \notin OddOs => os' \in {os} \cup (IF os = "default" THEN {None} ELSE {})
    OBVIOUS
  <2>1. /\ editor.combo = Shown.combo /\ editor.custom_entry = Shown.custom_entry
        /\ editor.os = Shown.os \/ (os = None /\ editor.os = None)
    BY DEF EditorInv, UntouchedFits, Save
  <2>2. TypeOK
    BY DEF EditorInv
  <2>3. ServiceBrowser' = ServiceBrowser
    <3>1. None \notin BrowserIds /\ "default" \in BrowserIds /\ "custom" \notin BrowserIds
      BY DEF BrowserIds, None
    <3>2. browser' = IF editor.combo = "custom" THEN editor.custom_entry ELSE editor.combo
      BY DEF Save, browser_get_value
    <3>3. browser' = browser \/ (browser = None /\ browser' = "default")
      BY <2>1, <2>2, <3>1, <3>2, ShownBrowser
    <3> QED BY <3>1, <3>3 DEF ServiceBrowser
  <2>4. os \notin OddOs => os' \in {os} \cup (IF os = "default" THEN {None} ELSE {})
    BY <2>1, <2>2, ShownOs DEF Save, TypeOK, None
  <2> QED BY <2>3, <2>4
<1> QED BY <1>1, EditorInvHolds, PluginImplementsEditor, PTL DEF Spec, SaveKeepsProfile

=============================================================================
