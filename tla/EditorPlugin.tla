----------------------------- MODULE EditorPlugin -----------------------------
(***************************************************************************)
(* The editor plugin in the process that shows the editor: the loader,     *)
(* which libnm asks for an editor, composed with EditorChoices, the editor *)
(* it loads.  The loader picks the module built for the process's GTK and  *)
(* keeps its handle for good, because the GLib types that the module       *)
(* registers can be registered only once.                                  *)
(*                                                                         *)
(* The host process may be one without GTK when the plugin is first used,  *)
(* and may load GTK later; the module files come and go with packages.     *)
(***************************************************************************)
EXTENDS EditorChoices

Gtk == {"gtk3", "gtk4"}

VARIABLES
    toolkit,    \* the GTK whose symbols the process has, or None
    files,      \* for each GTK's editor module: missing, broken or good
    cached,     \* the loader's static cache: the module, or None
    loaded      \* modules whose types are registered

loaderVars == <<toolkit, files, cached, loaded>>

PluginTypeOK ==
    /\ TypeOK
    /\ toolkit \in Gtk \cup {None}
    /\ files \in [Gtk -> {"missing", "broken", "good"}]
    /\ cached \in Gtk \cup {None}
    /\ loaded \subseteq Gtk

PluginInit ==
    /\ Init
    /\ toolkit \in Gtk \cup {None}
    /\ files \in [Gtk -> {"missing", "broken", "good"}]
    /\ cached = None
    /\ loaded = {}

\* plugin_get_editor tells GTK 3 by a symbol that GTK 4 does not have.
editor_module == IF toolkit = "gtk3" THEN "gtk3" ELSE "gtk4"

\* Faulty variants of load_editor: the cache is used without a look at the
\* name; the cache is for the same name only, and another module is loaded too.
load_editor_any(m) ==
    \/ cached # None /\ UNCHANGED loaderVars
    \/ /\ cached = None /\ files[m] = "good"
       /\ cached' = m /\ loaded' = loaded \cup {m}
       /\ UNCHANGED <<toolkit, files>>
load_editor_again(m) ==
    \/ cached = m /\ UNCHANGED loaderVars
    \/ /\ cached # m /\ files[m] = "good"
       /\ cached' = m /\ loaded' = loaded \cup {m}
       /\ UNCHANGED <<toolkit, files>>

\* nm_vpn_plugin_utils_load_editor succeeds: the cached module is the one
\* asked for, or nothing is cached and module and factory are found.
load_editor(m) ==
    \/ cached = m /\ UNCHANGED loaderVars
    \/ /\ cached = None /\ files[m] = "good"
       /\ cached' = m /\ loaded' = loaded \cup {m}
       /\ UNCHANGED <<toolkit, files>>

\* It fails: with an error if dlopen or dlsym does, and nothing is kept; but
\* if the cached module is another one, with a critical warning and no error.
load_editor_fails(m) ==
    /\ IF cached = None THEN files[m] # "good" ELSE cached # m
    /\ UNCHANGED loaderVars

\* libnm asks the plugin for an editor of the profile.
plugin_get_editor ==
    \/ Open /\ load_editor(editor_module)
    \/ /\ editor = Closed /\ load_editor_fails(editor_module)
       /\ UNCHANGED vars

\* The host process loads GTK, or is started again.
HostLoadsGtk ==
    /\ toolkit = None
    /\ toolkit' \in Gtk
    /\ UNCHANGED <<files, cached, loaded, vars>>
HostRestarts ==
    /\ editor = Closed
    /\ toolkit' \in Gtk \cup {None}
    /\ cached' = None
    /\ loaded' = {}
    /\ UNCHANGED <<files, vars>>

\* A package is installed, removed or upgraded.
FilesChange(m) ==
    /\ \E f \in {"missing", "broken", "good"} : files' = [files EXCEPT ![m] = f]
    /\ UNCHANGED <<toolkit, cached, loaded, vars>>

PluginNext ==
    \/ plugin_get_editor \/ HostLoadsGtk \/ HostRestarts
    \/ \E m \in Gtk : FilesChange(m)
    \/ (Touch \/ Save \/ Close \/ HandEdit \/ Launch \/ BrowserDone) /\ UNCHANGED loaderVars

PluginSpec == PluginInit /\ [][PluginNext]_<<vars, loaderVars>>

-----------------------------------------------------------------------------
(* Properties.                                                             *)

\* "loading the same module or another version of the same module will fail
\* horribly": whatever the host does with GTK and whichever attempts fail, a
\* process never has the types of both editors, and never reloads one.
OneEditorModule == loaded = (IF cached = None THEN {} ELSE {cached})

\* An editor that is opened in a process with GTK is built for that GTK, even
\* if another one was loaded before; its widgets would be useless, or worse.
EditorFitsToolkit ==
    [][editor = Closed /\ editor' # Closed => toolkit \in {None, cached'}]_<<vars, loaderVars>>
=============================================================================
