SPECIFICATION QueueSpec
CONSTANTS
    Queue <- MCQueue
    Size <- MCSize
    ItemSize <- MCItemSize
    Item <- MCItem
    one = one
    two = two
    three = three
    x = x
    y = y
PROPERTY
    RefusesOnlyWhenFull
