\* Every overlap of three changes, with two kills.
CONSTANTS
  web = web
  news = news
  music_and_more = music_and_more
  Trees <- AllTrees
  Plain <- PlainTrees
  Forms <- MCForms
  References <- MCReferences
  Opens = {TRUE, FALSE}
  MaxNumber = 9
  MaxKills = 2
  MaxEdits = 3
SPECIFICATION Spec
CHECK_DEADLOCK FALSE
INVARIANTS
  SavedTogether
PROPERTIES
  SettingsSurvive
