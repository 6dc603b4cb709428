SPECIFICATION Spec
CONSTANTS
    Users <- OneUser
    Staff = {}
    Developer = "developer"
    Offered <- ContractorButtons
    Reasons <- OneReason
    nullptr = nullptr
INVARIANT ProjectIsTheOneAskedFor
