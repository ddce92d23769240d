SPECIFICATION PluginSpec
CONSTANTS
  Custom = {wrapper}
  OddOs = {solaris}
  Program = {"portal", "firefox", "firefox-esr", "snap", "flatpak", "google-chrome"}
INVARIANTS PluginTypeOK ChoiceIsUsed FirefoxMeansFirefox OneEditorModule
PROPERTIES SaveKeepsProfile EditorFitsToolkit
