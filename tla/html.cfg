SPECIFICATION TreeSpec
CONSTANTS
    Tags = {"html", "head", "body", "title", "p", "b", "li", "h1", "button", "object", "option", "plaintext"}
    MaxOpen = 5
    MaxActive = 3
INVARIANT BodyStays TextTogether
PROPERTY EndStops
CHECK_DEADLOCK FALSE
