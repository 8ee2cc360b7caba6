SPECIFICATION Spec
CONSTANTS
    Fds = {3, 4, 5, 6}
    Paths = {"p", "q"}
PROPERTY
    PortHonoured
