SPECIFICATION Spec
CONSTANTS
  j1 = j1
  j2 = j2
  Presses = {j1, j2}
  Programs <- MCPrograms
  FirstProgram = "cotton"
  Keys <- MCKeys
  Schema <- MCSchema
  Rules <- MCRules
  Favourites <- MCFavourites
  MaxCode = 3
  Numbers = {"delay"}
  Switches = {"eco"}
  MaxEdits = 3
  MaxPresses = 2
  MaxFaults = 1
  MaxReloads = 1
CHECK_DEADLOCK FALSE
INVARIANTS TypeOK RulesAreObeyed FridgeFollowsTheCloud
PROPERTIES ChoiceIsHonoured OptionsStayWithTheirProgram
