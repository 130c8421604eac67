SPECIFICATION MCSpec
CONSTANT Outcomes = {"Unspecified","Ok","UserCancelled","MissingFields","InvalidPin","Blocked","PluginError","Unsupported","KeyActivationFailed","CardRemoved", "EntryExpired"}
INVARIANT MessagesArriveIntact
