------------------------------- MODULE Settings -------------------------------
(***************************************************************************)
(* The settings: settings.json, the settings view over it, which is made    *)
(* anew each time it opens, the session sidebar, which toggles one setting  *)
(* in the file itself, and the size of the terminals' text, which the       *)
(* sidebar and the zoom keys set and which is not a setting.                *)
(* "size" is a stepped setting (the font size and the scrollback are two of *)
(* them), "experimental" a toggle, and "theme" a setting that no control of *)
(* the window changes.                                                     *)
(***************************************************************************)
EXTENDS Integers, FiniteSets

CONSTANTS
  MinSize, MaxSize, DefaultSize, SizeStep,  \* a stepped setting
  MinZoom, MaxZoom, DefaultZoom,            \* the size of the text
  RawSizes, NaN,                            \* what a file edited by hand may hold
  Panes, MaxFailed

Sizes == MinSize .. MaxSize
Values == [size : Sizes, experimental : BOOLEAN, autocomplete : BOOLEAN, theme : BOOLEAN]
Defaults == [size |-> DefaultSize, experimental |-> FALSE, autocomplete |-> FALSE, theme |-> FALSE]

VARIABLES
  settingsFile,      \* what settings.json holds: "Missing", "Corrupt" or the values
  settingsOpen,      \* whether the settings view is open
  shown,             \* the values it holds
  autocompleteOn,    \* the window's own flag, read at the start
  zoom, paneZoom,    \* the size of the text, and that of each pane, 0 if there is none
  asked,             \* the value each setting was last given
  failedWrites

vars == <<settingsFile, settingsOpen, shown, autocompleteOn, zoom, paneZoom, asked, failedWrites>>
text == <<zoom, paneZoom>>

Clamp(value, least, most) == IF value < least THEN least ELSE IF value > most THEN most ELSE value

\* The file's clamp takes a negative size for none; the view's does not, and
\* meets no NaN, as it steps from a size within the bounds.
ConfigClamp(value) ==
  IF value = NaN THEN DefaultSize
  ELSE IF value < 0 THEN DefaultSize ELSE Clamp(value, MinSize, MaxSize)
ViewClamp(value) == Clamp(value, MinSize, MaxSize)

\* A file that cannot be read counts as none.
Load(f) ==
  IF f.state = "Valid" THEN [f.values EXCEPT !.size = ConfigClamp(@)] ELSE Defaults

Holding(values) == [state |-> "Valid", values |-> values]

Init ==
  /\ settingsFile \in {[state |-> s, values |-> Defaults] : s \in {"Missing", "Corrupt"}}
           \cup {Holding([v EXCEPT !.size = raw]) : v \in Values, raw \in RawSizes}
  /\ settingsOpen = FALSE /\ shown = Defaults
  /\ autocompleteOn = Load(settingsFile).autocomplete
  /\ zoom = DefaultZoom /\ paneZoom = [p \in Panes |-> 0]
  /\ asked = Load(settingsFile) /\ failedWrites = 0

\* The window closes, and opens again.
Restart ==
  /\ settingsOpen' = FALSE /\ shown' = Defaults
  /\ autocompleteOn' = Load(settingsFile).autocomplete
  /\ zoom' = DefaultZoom /\ paneZoom' = [p \in Panes |-> 0]
  /\ UNCHANGED <<settingsFile, asked, failedWrites>>

\* A failed write is ignored.
Write(values) ==
  \/ settingsFile' = Holding(values) /\ UNCHANGED failedWrites
  \/ failedWrites < MaxFailed /\ failedWrites' = failedWrites + 1 /\ UNCHANGED settingsFile

-----------------------------------------------------------------------------
(* The settings view.                                                      *)

OpenSettings ==
  /\ settingsOpen' = ~settingsOpen
  /\ shown' = IF settingsOpen THEN Defaults ELSE Load(settingsFile)
  /\ UNCHANGED <<settingsFile, autocompleteOn, text, asked, failedWrites>>

\* save_settings(): one value is changed, all of the view's are set, and the
\* file is written.
SaveSettings(setting, value) ==
  /\ settingsOpen
  /\ shown' = [shown EXCEPT ![setting] = value]
  /\ asked' = [asked EXCEPT ![setting] = value]
  /\ Write([shown' EXCEPT !.size = ConfigClamp(@)])
  /\ UNCHANGED <<settingsOpen, autocompleteOn, text>>

\* A stepper's buttons, each disabled at its end.
StepDown == shown.size > MinSize /\ SaveSettings("size", ViewClamp(shown.size - SizeStep))
StepUp == shown.size < MaxSize /\ SaveSettings("size", ViewClamp(shown.size + SizeStep))

ToggleExperimental == SaveSettings("experimental", ~shown.experimental)

\* Autocomplete is among the experimental settings.
ToggleAutocomplete ==
  shown.experimental /\ SaveSettings("autocomplete", ~shown.autocomplete)

-----------------------------------------------------------------------------
(* The sidebar beside a terminal, which the view hides.                    *)

InTerminal == ~settingsOpen /\ \E p \in Panes : paneZoom[p] # 0

\* The window's flag is flipped and put into the file as it is now.
SidebarToggle ==
  /\ InTerminal
  /\ autocompleteOn' = ~autocompleteOn
  /\ asked' = [asked EXCEPT !.autocomplete = ~autocompleteOn]
  /\ Write([Load(settingsFile) EXCEPT !.autocomplete = ~autocompleteOn])
  /\ UNCHANGED <<settingsOpen, shown, text>>

-----------------------------------------------------------------------------
(* The size of the text.                                                   *)

SetTerminalFontSize(size) ==
  LET clamped == Clamp(size, MinZoom, MaxZoom)
  IN /\ zoom' = clamped
     /\ paneZoom' = [p \in Panes |-> IF paneZoom[p] = 0 THEN 0 ELSE clamped]
     /\ UNCHANGED <<settingsFile, settingsOpen, shown, autocompleteOn, asked, failedWrites>>

ZoomIn == SetTerminalFontSize(zoom + 1)
ZoomOut == SetTerminalFontSize(zoom - 1)
ResetZoom == SetTerminalFontSize(DefaultZoom)

\* A session opens with the size of the text, and closes the view.
CreateSession(p) ==
  /\ paneZoom[p] = 0
  /\ paneZoom' = [paneZoom EXCEPT ![p] = zoom]
  /\ settingsOpen' = FALSE /\ shown' = Defaults
  /\ UNCHANGED <<settingsFile, autocompleteOn, zoom, asked, failedWrites>>

-----------------------------------------------------------------------------
Next ==
  \/ Restart \/ OpenSettings
  \/ StepDown \/ StepUp \/ ToggleExperimental \/ ToggleAutocomplete
  \/ SidebarToggle \/ ZoomIn \/ ZoomOut \/ ResetZoom
  \/ \E p \in Panes : CreateSession(p)

Spec == Init /\ [][Next]_vars

-----------------------------------------------------------------------------
\* While every write succeeds each setting is in the file as it was last given,
\* by whichever control, and the view shows what the file holds: neither the
\* sidebar's write nor the view's takes back what the other wrote.
SettingsAreKept ==
  failedWrites = 0 =>
    /\ Load(settingsFile) = asked
    /\ settingsOpen => shown = asked

\* Every pane has the size of the text, whether it was open when that was set
\* or not.
PanesAreOneSize == \A p \in Panes : paneZoom[p] \in {0, zoom}
=============================================================================
