------------------------------ MODULE HostDrawer ------------------------------
(***************************************************************************)
(* The hosts screen's drawer: the cards select a host, and what is typed    *)
(* into the boxes of the drawer is written to the inventory at once.  The   *)
(* boxes outlive every host, and so does the drawer's note of the host that *)
(* their texts are of; the id of a removed host may be given again.         *)
(***************************************************************************)
EXTENDS Naturals, FiniteSets

CONSTANTS
  Names,         \* labels that hosts are added with
  BaseOf,        \* the id that a label gives; labels may give the same
  CopyOf,        \* the label of a copy
  Addresses,
  MaxHosts,
  Nobody         \* no host

Labels == DOMAIN BaseOf
Fields == {"label", "address", "port"}
Junk == "junk"
Ports == {"22", "2222"}
Texts == [label |-> Labels, address |-> Addresses \cup {""}, port |-> Ports \cup {"", Junk}]
HostIds == {BaseOf[label] : label \in Labels} \X (1..MaxHosts)
None == [f \in Fields |-> ""]

VARIABLES
  hosts,      \* the inventory: the fields of each host there is
  telnet,     \* the hosts that offer Telnet too
  selected,   \* the host whose card is selected
  edited,     \* the host that the boxes were last filled for
  boxes,      \* the texts of the boxes
  open, menu, more, themes,  \* the drawer, its menu, "Show more", the theme browser
  meant       \* what the user gave last for each host, by its form or in its drawer

drawerVars == <<hosts, telnet, selected, edited, boxes, open, menu, more, themes, meant>>
chrome == <<open, menu, more, themes>>

Present == {id \in HostIds : hosts[id] # None}

\* What a box's text says of its host, which had the value old.
Read(field, text, old) ==
  CASE field = "address" /\ text = "" -> old
    [] field = "port" /\ text = "" -> "22"
    [] field = "port" /\ text = Junk -> old
    [] OTHER -> text

\* The boxes are filled when the host selected is not the one they are of.
Sync(id, inventory) ==
  IF id = edited THEN UNCHANGED <<edited, boxes>> ELSE edited' = id /\ boxes' = inventory[id]

Select(id) == selected' = id /\ Sync(id, hosts')

\* A new host has the first id of its label that no host has.
FreshId(label) ==
  CHOOSE id \in HostIds :
    /\ id[1] = BaseOf[label] /\ id \notin Present
    /\ \A n \in 1..(id[2] - 1) : <<id[1], n>> \in Present

Insert(id, host) == hosts' = [hosts EXCEPT ![id] = host] /\ meant' = [meant EXCEPT ![id] = host]

\* With or without a host; the first is selected.
DrawerInit ==
  \E first \in {Nobody} \cup {id \in HostIds : id[2] = 1} :
    /\ hosts \in [HostIds -> {None} \cup
                    {[label |-> label, address |-> address, port |-> "22"] :
                       label \in Names, address \in Addresses}]
    /\ Present = {first} \ {Nobody}
    /\ first # Nobody => BaseOf[hosts[first].label] = first[1]
    /\ selected = first /\ edited = first
    /\ boxes = IF first = Nobody THEN None ELSE hosts[first]
    /\ telnet = {} /\ meant = hosts
    /\ open = TRUE /\ menu = FALSE /\ more = FALSE /\ themes = FALSE

-----------------------------------------------------------------------------
(* What is drawn.                                                          *)

Detailed == open /\ selected # Nobody
BoxesShown == Detailed /\ ~themes
MenuShown == Detailed /\ menu

-----------------------------------------------------------------------------
(* Cards, the sheet and the palette.                                       *)

\* The click on a card, and its pencil.
ClickCard(id) ==
  /\ id \in Present /\ UNCHANGED <<hosts, telnet, menu, more, themes, meant>>
  /\ Select(id) /\ open' = TRUE

\* From the sheet or the palette, if the form has a label, an address and a port.
AddDraftHost(label, address, portText) ==
  /\ Cardinality(Present) < MaxHosts
  /\ address # "" /\ portText # Junk
  /\ LET id == FreshId(label)
     IN /\ Insert(id, [label |-> label, address |-> address,
                       port |-> Read("port", portText, "22")])
        /\ Select(id)
  /\ UNCHANGED <<telnet, chrome>>

Removed(id) ==
  /\ hosts' = [hosts EXCEPT ![id] = None] /\ meant' = [meant EXCEPT ![id] = None]
  /\ telnet' = telnet \ {id}
  /\ selected' = (IF selected = id THEN Nobody ELSE selected)
  /\ UNCHANGED boxes

\* Its id may come again: the boxes are of no host from here on.
RemoveHost(id) == Removed(id) /\ edited' = Nobody
RemoveHostKeepingEdited(id) == Removed(id) /\ UNCHANGED edited

PaletteRemoves ==
  /\ selected # Nobody /\ RemoveHost(selected) /\ UNCHANGED chrome

-----------------------------------------------------------------------------
(* The drawer.                                                             *)

ToggleDrawer ==
  /\ open' = ~open
  /\ UNCHANGED <<hosts, telnet, selected, edited, boxes, menu, more, themes, meant>>

\* The boxes keep the texts of the host they were of.
Collapse ==
  /\ open /\ open' = FALSE /\ menu' = FALSE /\ selected' = Nobody
  /\ UNCHANGED <<hosts, telnet, edited, boxes, more, themes, meant>>

ToggleMenu ==
  /\ open /\ menu' = ~menu
  /\ UNCHANGED <<hosts, telnet, selected, edited, boxes, open, more, themes, meant>>

MenuDuplicate ==
  /\ MenuShown /\ menu' = FALSE /\ Cardinality(Present) < MaxHosts
  /\ LET copy == [hosts[selected] EXCEPT !.label = CopyOf[@]]
         id == FreshId(copy.label)
     IN /\ Insert(id, copy) /\ Select(id)
        /\ telnet' = telnet \cup {id : i \in telnet \cap {selected}}
  /\ UNCHANGED <<open, more, themes>>

MenuRemove ==
  /\ MenuShown /\ menu' = FALSE /\ RemoveHost(selected)
  /\ UNCHANGED <<open, more, themes>>

\* In the menu, and at the end of the details.
AddTelnet ==
  /\ \/ MenuShown /\ menu' = FALSE
     \/ BoxesShown /\ UNCHANGED menu
  /\ telnet' = telnet \cup {selected}
  /\ UNCHANGED <<hosts, selected, edited, boxes, open, more, themes, meant>>

ShowMore ==
  /\ BoxesShown /\ more' = ~more
  /\ UNCHANGED <<hosts, telnet, selected, edited, boxes, open, menu, themes, meant>>

\* The browser takes the place of the details until a theme is chosen, whatever
\* host is selected meanwhile.
BrowseThemes ==
  /\ \/ BoxesShown /\ more /\ themes' = TRUE
     \/ Detailed /\ themes /\ themes' = FALSE
  /\ UNCHANGED <<hosts, telnet, selected, edited, boxes, open, menu, more, meant>>

\* A text is written to the host that the boxes are of as it is typed; the user
\* means it for the one whose details are shown.
Commit(field, text) ==
  IF edited = Nobody \/ edited \notin Present THEN UNCHANGED hosts
  ELSE hosts' = [hosts EXCEPT ![edited][field] = Read(field, text, @)]

Type(field, text) ==
  /\ BoxesShown /\ boxes' = [boxes EXCEPT ![field] = text]
  /\ Commit(field, text)
  /\ meant' = [meant EXCEPT ![selected][field] = Read(field, text, @)]
  /\ UNCHANGED <<telnet, selected, edited, chrome>>

DrawerNext ==
  \/ \E id \in HostIds : ClickCard(id)
  \/ \E label \in Names, address \in Texts.address, portText \in Texts.port :
       AddDraftHost(label, address, portText)
  \/ PaletteRemoves \/ ToggleDrawer \/ Collapse \/ ToggleMenu
  \/ MenuDuplicate \/ MenuRemove \/ AddTelnet \/ ShowMore \/ BrowseThemes
  \/ \E field \in Fields : \E text \in Texts[field] : Type(field, text)

-----------------------------------------------------------------------------
\* What is typed in the drawer is of the host whose details it shows, and reaches
\* that host and no other, through removals, copies, ids given again and
\* drawers collapsed: every host is as the user last described it, and the boxes
\* shown say what the host selected has, or nothing that can be read.
TypingReachesTheSelected ==
  /\ hosts = meant
  /\ BoxesShown =>
       /\ edited = selected
       /\ \A field \in Fields :
            Read(field, boxes[field], hosts[selected][field]) = hosts[selected][field]

\* A host that is gone is not selected, and a Telnet host is there.
SelectionIsThere == {selected} \cup telnet \subseteq Present \cup {Nobody}
=============================================================================
